---- MODULE Spec2Model ----
(***************************************************************************)
(* Model of the text-analyzer backend (Hono app on AWS Lambda): the        *)
(* /signup and /login routes, the bearer-token auth middleware and the     *)
(* POST /analyze route with its S3 upload, provider call and article_logs  *)
(* insert.                                                                 *)
(*                                                                         *)
(* Time is counted in days.  Strings that the code inspects (text, file    *)
(* contents) are sequences of one-character strings; a file name is the    *)
(* sequence of its dot-separated segments, each extension segment keeping  *)
(* its leading dot.                                                        *)
(***************************************************************************)
EXTENDS Integers, Sequences, FiniteSets, TLC

\* ---------------------------------------------------------------- bounds
MaxNow == 60          \* the clock stops advancing after this many days
TickDays == 15        \* granularity of the clock
MaxTokens == 2        \* sessions (= access tokens) issued at most
MaxRequests == 1      \* /analyze requests handled at most
ClientTickSec == 15   \* granularity of the client's clock, in seconds
MaxElapsedSec == 60   \* a client call is followed for this many seconds
MaxRepeat == 7        \* a word is repeated at most so often in a text
MaxCountries == 3     \* a list of countries has at most so many entries
MaxMigrations == 3    \* migration calls followed
MaxClicks == 2        \* clicks on Analyze in one run of the analyzer view
MaxSignups == 3       \* /signup calls followed

\* ------------------------------------------------------- program constants
SessionDays == 30     \* login.ts: Date.now() + 30 * 24 * 60 * 60 * 1000
MaxFileSizeMB == 10   \* fileValidation.ts: MAX_FILE_SIZE = 10 * 1024 * 1024
MinPasswordLen == 8   \* validators: password: z.string().min(8)
ClientTimeoutSec == 30  \* textAnalysisApi: DEFAULT_TIMEOUT = 30000 (ms)
RetryLimit == 2       \* useTextAnalysis: failureCount < 2

VARIABLES now, users, sessions, issued, gate, req, s3objects, article_logs,
          reqCount,
          mut,    \* the client's analysis mutation (useTextAnalysis)
          fn,     \* a call of a client utility: its arguments and results
          mig,    \* the columns of article_logs and the migration calls
          su,     \* /signup requests taken statement by statement
          ui,     \* the TextAnalyzer component
          idx     \* the Index page and localStorage

vars == <<now, users, sessions, issued, gate, req, s3objects, article_logs,
          reqCount, mut, fn, mig, su, ui, idx>>

\* the pages of the client
pageVars == <<ui, idx>>

\* the client side, which no server step touches
clientVars == <<mut, fn, pageVars>>

\* the migration and signup requests that run statement by statement
adminVars == <<mig, su>>

\* the server side, which no client step touches
serverVars == <<now, users, sessions, issued, gate, req, s3objects,
                article_logs, reqCount, adminVars>>

\* ------------------------------------------------------------ auth.ts
\* crypto.createHash('sha256').update(token).digest('hex'): a fixed
\* collision-free map without fixed point on the value space 0..63.
hashToken(token) == (5 * token + 3) % 64

\* Authorization header values: absent, or a string split at position 7.
NoHeader == [present |-> FALSE, prefix |-> "", rest |-> 0]
Header(prefix, rest) == [present |-> TRUE, prefix |-> prefix, rest |-> rest]

\* SELECT id, user_id, expires_at FROM sessions WHERE access_token = $1
SessionRows(tokenHash) == {s \in sessions : s.access_token = tokenHash}

\* the comparison turned round
SessionExpired_Flipped(session, t) == session.expires_at > t

\* session.expires_at && new Date(session.expires_at) < new Date()
SessionExpired(session, t) == session.expires_at < t

\* auth without the rows.length === 0 branch
AuthOutcome_NoRowCheck(header, t, dbOk) ==
  IF ~header.present \/ header.prefix # "Bearer "
    THEN [status |-> 401, error |-> "Unauthorized", next |-> FALSE]
  ELSE IF ~dbOk
    THEN [status |-> 500, error |-> "Internal server error", next |-> FALSE]
  ELSE IF \E s \in SessionRows(hashToken(header.rest)) : SessionExpired(s, t)
    THEN [status |-> 401, error |-> "Session expired", next |-> FALSE]
  ELSE [status |-> 200, error |-> "", next |-> TRUE]

\* The outcome of auth(c, next) on a header, at time t; dbOk = FALSE is a
\* throwing getPool()/db.query.
AuthOutcome(header, t, dbOk) ==
  IF ~header.present \/ header.prefix # "Bearer "
    THEN [status |-> 401, error |-> "Unauthorized", next |-> FALSE]
  ELSE IF ~dbOk
    THEN [status |-> 500, error |-> "Internal server error", next |-> FALSE]
  ELSE IF SessionRows(hashToken(header.rest)) = {}
    THEN [status |-> 401, error |-> "Unauthorized", next |-> FALSE]
  ELSE IF \E s \in SessionRows(hashToken(header.rest)) : SessionExpired(s, t)
    THEN [status |-> 401, error |-> "Session expired", next |-> FALSE]
  ELSE [status |-> 200, error |-> "", next |-> TRUE]

\* Token values a client may present: never issued (0), issued, and the
\* values stored in the sessions table.
PresentedTokens ==
  (0 .. MaxTokens) \cup {hashToken(t) : t \in 1 .. MaxTokens}

GateHeaders ==
  {NoHeader} \cup {Header(p, t) : p \in {"Basic ", "bearer ", "Bearer "},
                                  t \in PresentedTokens}

IdleGate ==
  [header |-> NoHeader, at |-> 0, dbOk |-> TRUE,
   rows |-> {}, out |-> [status |-> 0, error |-> "", next |-> FALSE],
   passed |-> {}]

\* The auth middleware applied to one request; gate records the request, the
\* rows the table held for it, its outcome and the tokens that have passed
\* the gate so far.
AuthGate(header, dbOk) ==
  /\ gate' = [header |-> header, at |-> now, dbOk |-> dbOk,
              rows |-> SessionRows(hashToken(header.rest)),
              out |-> AuthOutcome(header, now, dbOk),
              passed |-> IF AuthOutcome(header, now, dbOk).next
                           THEN gate.passed \cup {header.rest}
                           ELSE gate.passed]
  /\ UNCHANGED <<clientVars, adminVars, now, users, sessions, issued, req,
                 s3objects, article_logs,
                 reqCount>>

\* ------------------------------------------------- validators, login.ts
\* z.string().trim().email() followed by email.trim().toLowerCase()
EmailInputs == {"a@x.io", " A@X.io ", "not-an-email"}
IsEmail(e) == e \in {"a@x.io", " A@X.io "}
NormalizeEmail(e) == IF e = " A@X.io " THEN "a@x.io" ELSE e

\* passwords as character sequences; z.string().min(8)
PasswordInputs == {<<"p","a","s","s","w","o","r","d">>,
                   <<"s","h","o","r","t">>}
ValidCredentials(email, password) ==
  IsEmail(email) /\ Len(password) >= MinPasswordLen

\* bcrypt.hash(password, 12) and bcrypt.compare(password, hash)
BcryptHash(password) == <<"$2a$12$">> \o password
BcryptCompare(password, hash) == hash = BcryptHash(password)

\* crypto.randomBytes(64).toString('hex'): a value never issued before
FreshToken == Cardinality(sessions) + 1

\* the session row holding the access token itself
NewSession_RawToken(user_id) ==
  [id |-> Cardinality(sessions) + 1, user_id |-> user_id,
   access_token |-> FreshToken,
   expires_at |-> now + SessionDays]

\* INSERT INTO sessions (...) VALUES (...) RETURNING id, expires_at
NewSession(user_id) ==
  [id |-> Cardinality(sessions) + 1, user_id |-> user_id,
   access_token |-> hashToken(FreshToken),
   expires_at |-> now + SessionDays]

IssueSession(user_id) ==
  /\ sessions' = sessions \cup {NewSession(user_id)}
  /\ issued' = issued \cup
       {[access_token |-> FreshToken, session_id |-> NewSession(user_id).id,
         issued_at |-> now, expires_at |-> NewSession(user_id).expires_at]}

\* POST /signup answering 201 (400 and 409 change nothing)
Signup(email, password) ==
  /\ Cardinality(sessions) < MaxTokens
  /\ ValidCredentials(email, password)
  /\ ~\E u \in users : u.email = NormalizeEmail(email)
  /\ users' = users \cup {[id |-> Cardinality(users) + 1,
                           email |-> NormalizeEmail(email),
                           password_hash |-> BcryptHash(password)]}
  /\ IssueSession(Cardinality(users) + 1)
  /\ UNCHANGED <<clientVars, adminVars, now, gate, req, s3objects,
                 article_logs, reqCount>>

\* POST /login answering 200 (400 and 401 change nothing)
Login(email, password) ==
  /\ Cardinality(sessions) < MaxTokens
  /\ ValidCredentials(email, password)
  /\ \E u \in users :
       /\ u.email = NormalizeEmail(email)
       /\ BcryptCompare(password, u.password_hash)
       /\ IssueSession(u.id)
  /\ UNCHANGED <<clientVars, adminVars, now, users, gate, req, s3objects,
                 article_logs, reqCount>>

\* the clock
Tick ==
  /\ now + TickDays <= MaxNow
  /\ now' = now + TickDays
  /\ UNCHANGED <<clientVars, adminVars, users, sessions, issued, gate, req,
                 s3objects, article_logs,
                 reqCount>>

\* ------------------------------------------------------ strings (JS)
IsSpace(ch) == ch \in {" ", "\n", "\t"}

RECURSIVE TrimStart(_)
TrimStart(str) ==
  IF str # <<>> /\ IsSpace(Head(str)) THEN TrimStart(Tail(str)) ELSE str

RECURSIVE TrimEnd(_)
TrimEnd(str) ==
  IF str # <<>> /\ IsSpace(str[Len(str)])
    THEN TrimEnd(SubSeq(str, 1, Len(str) - 1))
    ELSE str

\* String.prototype.trim
Trim(str) == TrimEnd(TrimStart(str))

\* Array.prototype.join
RECURSIVE Join(_, _)
Join(parts, sep) ==
  IF parts = <<>> THEN <<>>
  ELSE IF Len(parts) = 1 THEN parts[1]
  ELSE parts[1] \o sep \o Join(Tail(parts), sep)

\* file.name.endsWith(ext), ext one dot-led segment
EndsWith(name, ext) == name # <<>> /\ name[Len(name)] = ext

\* file.name.split('.').pop() || 'txt'
FileExtension(name) ==
  LET last == IF Len(name) <= 1 THEN Join(name, <<>>)
              ELSE Tail(name[Len(name)])
  IN IF last = <<>> THEN <<"t","x","t">> ELSE last

\* ------------------------------------------------- POST /analyze inputs
NoFile == [present |-> FALSE, name |-> <<>>, sizeMB |-> 0, content |-> <<>>]
File(name, sizeMB, content) ==
  [present |-> TRUE, name |-> name, sizeMB |-> sizeMB, content |-> content]

TxtName == << <<"a">>, <<".","t","x","t">> >>
DocxName == << <<"r">>, <<".","d","o","c","x">> >>
PdfName == << <<"s">>, <<".","p","d","f">> >>
\* a.txt.exe: ends in neither .txt nor .docx
ExeName == << <<"a">>, <<".","t","x","t">>, <<".","e","x","e">> >>

FileInputs ==
  {NoFile,
   File(TxtName, 1, <<"b">>), File(TxtName, 1, <<>>),
   File(TxtName, 2 * MaxFileSizeMB, <<"b">>),
   File(DocxName, 1, <<"c">>),
   File(PdfName, 1, <<"d">>), File(ExeName, 1, <<"e">>)}

\* the text form field / JSON property; absent and '' are both <<>>
TextInputs == {<<>>, <<" ", "a", " ">>}

\* Authorization headers a client may send with /analyze
AnalyzeHeaders ==
  {NoHeader, Header("Basic ", 0), Header("Bearer ", 0)}
    \cup {Header("Bearer ", i.access_token) : i \in issued}

AnalyzeInputs ==
  {[header |-> h, contentType |-> "multipart/form-data", text |-> t,
    file |-> f] : h \in AnalyzeHeaders, t \in TextInputs, f \in FileInputs}
  \cup
  {[header |-> h, contentType |-> "application/json", text |-> t,
    file |-> NoFile] : h \in AnalyzeHeaders, t \in TextInputs}

\* ------------------------------------------------- responses and rows
NoResponse == [status |-> 0, body |-> [none |-> TRUE]]
Json(body, status) == [status |-> status, body |-> body]

NullUrl == [bucket |-> "", id |-> 0, ext |-> <<>>]
\* `s3://${process.env.FILE_BUCKET}/uploads/${fileId}.${fileExtension}`
S3Url(fileId, ext) == [bucket |-> "FILE_BUCKET", id |-> fileId, ext |-> ext]

\* objects that pass outputSchema: language is optional
ProviderObjects ==
  {[article_summary |-> <<"s">>, nationalities |-> <<"French">>,
    organizations |-> <<>>, people |-> <<"p">>, language |-> <<"English">>],
   [article_summary |-> <<"s">>, nationalities |-> <<"French">>,
    organizations |-> <<>>, people |-> <<"p">>, language |-> <<>>],
   [article_summary |-> <<"s">>, nationalities |-> <<"French">>,
    organizations |-> <<>>, people |-> <<"p">>]}
NoObject == [none |-> TRUE]

AnalysisFields ==
  {"article_summary", "nationalities", "organizations", "people", "language"}

\* ------------------------------------- POST /analyze: reading the body
\* The first try block of the handler.  formOk: c.req.formData() resolves;
\* mammothOk: extractRawText resolves; s3Ok: s3Client.send resolves; fileId:
\* the uuid of the upload.  response = NoResponse when the handler goes on
\* to the provider call.
ParseResult(response, articleText, url, extracted, put) ==
  [response |-> response, articleText |-> articleText,
   uploadedFileUrl |-> url, extracted |-> extracted, uploadTried |-> extracted,
   uploadOk |-> put # {}, put |-> put]

\* the extension check also letting .pdf through
SupportedFile_Pdf(name) ==
  \/ EndsWith(name, <<".","t","x","t">>)
  \/ EndsWith(name, <<".","d","o","c","x">>)
  \/ EndsWith(name, <<".","p","d","f">>)

\* file.name.endsWith('.txt') || file.name.endsWith('.docx')
SupportedFile(name) ==
  EndsWith(name, <<".","t","x","t">>) \/ EndsWith(name, <<".","d","o","c","x">>)

\* the body parser without the try/catch around the S3 upload
ParseBody_UploadFatal(input, formOk, mammothOk, s3Ok, fileId) ==
  LET file == input.file
      textParts == IF Trim(input.text) # <<>> THEN <<Trim(input.text)>>
                   ELSE <<>>
      supported == SupportedFile(file.name)
      stored == [id |-> fileId, ext |-> FileExtension(file.name),
                 body |-> file.content, originalName |-> file.name]
      parts == IF file.present THEN Append(textParts, file.content)
               ELSE textParts
      text == Join(parts, <<"\n", "\n">>)
      url == IF file.present /\ s3Ok
               THEN S3Url(fileId, FileExtension(file.name)) ELSE NullUrl
      put == IF file.present /\ s3Ok THEN {stored} ELSE {}
      failed(msg) == ParseResult(Json([error |-> msg], 400), <<>>, NullUrl,
                                 FALSE, {})
  IN
  IF input.contentType = "multipart/form-data" THEN
    IF ~formOk THEN failed("Failed to parse body")
    ELSE IF file.present /\ ~supported
      THEN failed("Unsupported file type. Only .txt and .docx are accepted.")
    ELSE IF file.present /\ EndsWith(file.name, <<".","d","o","c","x">>)
            /\ ~mammothOk
      THEN failed("Failed to parse body")
    ELSE IF file.present /\ ~s3Ok
      THEN [failed("Failed to parse body") EXCEPT !.extracted = TRUE,
                                                 !.uploadTried = TRUE]
    ELSE IF text = <<>>
      THEN ParseResult(Json([error |-> "No article text provided"], 400),
                       text, url, file.present, put)
    ELSE ParseResult(NoResponse, text, url, file.present, put)
  ELSE
    IF input.text = <<>>
      THEN failed("No article text provided")
      ELSE ParseResult(NoResponse, input.text, NullUrl, FALSE, {})

\* the first try block of the handler
ParseBody(input, formOk, mammothOk, s3Ok, fileId) ==
  LET file == input.file
      textParts == IF Trim(input.text) # <<>> THEN <<Trim(input.text)>>
                   ELSE <<>>
      supported == SupportedFile(file.name)
      stored == [id |-> fileId, ext |-> FileExtension(file.name),
                 body |-> file.content, originalName |-> file.name]
      parts == IF file.present THEN Append(textParts, file.content)
               ELSE textParts
      text == Join(parts, <<"\n", "\n">>)
      url == IF file.present /\ s3Ok
               THEN S3Url(fileId, FileExtension(file.name)) ELSE NullUrl
      put == IF file.present /\ s3Ok THEN {stored} ELSE {}
      failed(msg) == ParseResult(Json([error |-> msg], 400), <<>>, NullUrl,
                                 FALSE, {})
  IN
  IF input.contentType = "multipart/form-data" THEN
    IF ~formOk THEN failed("Failed to parse body")
    ELSE IF file.present /\ ~supported
      THEN failed("Unsupported file type. Only .txt and .docx are accepted.")
    ELSE IF file.present /\ EndsWith(file.name, <<".","d","o","c","x">>)
            /\ ~mammothOk
      THEN failed("Failed to parse body")
    ELSE IF text = <<>>
      THEN ParseResult(Json([error |-> "No article text provided"], 400),
                       text, url, file.present, put)
    ELSE ParseResult(NoResponse, text, url, file.present, put)
  ELSE
    IF input.text = <<>>
      THEN failed("No article text provided")
      ELSE ParseResult(NoResponse, input.text, NullUrl, FALSE, {})

\* ------------------------------------- POST /analyze: provider and insert
\* generateObject(...) either throws (provider error, or output that fails
\* outputSchema) or returns an object of ProviderObjects.
ProviderFailed == [error |-> "Failed to analyze article"]

\* result.object.language || 'unknown'
LanguageColumn(object) ==
  IF "language" \in DOMAIN object
    THEN [t |-> "array", v |-> object.language]
    ELSE [t |-> "string", v |-> <<"unknown">>]

\* the parameter list of INSERT INTO article_logs(...)
ArticleLogRow(object, articleText, uploadedFileUrl) ==
  [summary |-> object.article_summary,
   nationalities |-> object.nationalities,
   organizations |-> object.organizations,
   people |-> object.people,
   language |-> LanguageColumn(object),
   original_text |-> articleText,
   uploaded_file |-> uploadedFileUrl]

\* the insert failure handed on to the caller
FinalResponse_Propagate(object, insertOk) ==
  IF insertOk THEN Json(object, 200)
  ELSE Json([error |-> "Failed to save article"], 500)

\* the response after the insert settled, whatever its outcome
FinalResponse(object, insertOk) == Json(object, 200)

IdleReq ==
  [pc |-> "idle", input |-> [header |-> NoHeader, contentType |-> "",
                            text |-> <<>>, file |-> NoFile],
   authorized |-> FALSE,
   articleText |-> <<>>, uploadedFileUrl |-> NullUrl, extracted |-> FALSE,
   uploadTried |-> FALSE, uploadOk |-> FALSE, providerCalls |-> 0, object |-> NoObject,
   insert |-> "none", response |-> NoResponse]

\* ------------------------------------------------ POST /analyze: steps
\* index.ts registers the route with the cors middleware only; the handler
\* starts on every request.  authorized records what auth would have
\* decided for the header at that moment.
AnalyzeRequest(input) ==
  /\ req.pc \in {"idle", "done"}
  /\ reqCount < MaxRequests
  /\ reqCount' = reqCount + 1
  /\ req' = [IdleReq EXCEPT !.pc = "parse", !.input = input,
                            !.authorized = AuthOutcome(input.header, now, TRUE).next]
  /\ UNCHANGED <<clientVars, adminVars, now, users, sessions, issued, gate,
                 s3objects, article_logs>>

AnalyzeParse(formOk, mammothOk, s3Ok) ==
  /\ req.pc = "parse"
  /\ LET r == ParseBody(req.input, formOk, mammothOk, s3Ok,
                        Cardinality(s3objects) + 1)
     IN /\ req' = [req EXCEPT
                     !.pc = IF r.response = NoResponse THEN "provider"
                            ELSE "done",
                     !.response = r.response,
                     !.articleText = r.articleText,
                     !.uploadedFileUrl = r.uploadedFileUrl,
                     !.extracted = r.extracted,
                     !.uploadTried = r.uploadTried,
                     !.uploadOk = r.uploadOk]
        /\ s3objects' = s3objects \cup r.put
  /\ UNCHANGED <<clientVars, adminVars, now, users, sessions, issued, gate,
                 article_logs, reqCount>>

\* the provider call tried a second time after a failure
AnalyzeProvider_Retry(outcome) ==
  /\ req.pc = "provider"
  /\ req' = IF outcome = ProviderFailed
              THEN IF req.providerCalls = 0
                     THEN [req EXCEPT !.providerCalls = @ + 1]
                     ELSE [req EXCEPT !.pc = "done",
                                      !.providerCalls = @ + 1,
                                      !.response = Json(ProviderFailed, 500)]
              ELSE [req EXCEPT !.pc = "insert",
                               !.providerCalls = @ + 1,
                               !.object = outcome,
                               !.insert = "inflight"]
  /\ UNCHANGED <<clientVars, adminVars, now, users, sessions, issued, gate,
                 s3objects, article_logs,
                 reqCount>>

\* await generateObject(...); on success db.query(INSERT ...) is issued
AnalyzeProvider(outcome) ==
  /\ req.pc = "provider"
  /\ req' = IF outcome = ProviderFailed
              THEN [req EXCEPT !.pc = "done",
                               !.providerCalls = @ + 1,
                               !.response = Json(ProviderFailed, 500)]
              ELSE [req EXCEPT !.pc = "insert",
                               !.providerCalls = @ + 1,
                               !.object = outcome,
                               !.insert = "inflight"]
  /\ UNCHANGED <<clientVars, adminVars, now, users, sessions, issued, gate,
                 s3objects, article_logs,
                 reqCount>>

\* the awaited insert resolves (ok) or rejects; then return c.json(...)
AnalyzeInsertSettles(ok) ==
  /\ req.pc = "insert"
  /\ article_logs' =
       IF ok THEN Append(article_logs,
                         ArticleLogRow(req.object, req.articleText,
                                       req.uploadedFileUrl))
             ELSE article_logs
  /\ req' = [req EXCEPT !.pc = "done",
                        !.insert = IF ok THEN "ok" ELSE "failed",
                        !.response = FinalResponse(req.object, ok)]
  /\ UNCHANGED <<clientVars, adminVars, now, users, sessions, issued, gate,
                 s3objects, reqCount>>

\* ------------------------------------- client utilities: textProcessing.ts
\* A string is a sequence of characters; a character outside ASCII is written
\* by its code point, "U+4E2D".
UpperCase ==
  <<"A", "B", "C", "D", "E", "F", "G", "H", "I", "J", "K", "L", "M",
    "N", "O", "P", "Q", "R", "S", "T", "U", "V", "W", "X", "Y", "Z">>
LowerCase ==
  <<"a", "b", "c", "d", "e", "f", "g", "h", "i", "j", "k", "l", "m",
    "n", "o", "p", "q", "r", "s", "t", "u", "v", "w", "x", "y", "z">>
DigitChars == {"0", "1", "2", "3", "4", "5", "6", "7", "8", "9"}

Range(seq) == {seq[k] : k \in 1 .. Len(seq)}

\* String.prototype.toLowerCase / toUpperCase, on the letters that have a case
ToLowerChar(c) ==
  IF c \in Range(UpperCase)
    THEN LowerCase[CHOOSE k \in 1 .. Len(UpperCase) : UpperCase[k] = c]
    ELSE c
ToUpperChar(c) ==
  IF c \in Range(LowerCase)
    THEN UpperCase[CHOOSE k \in 1 .. Len(LowerCase) : LowerCase[k] = c]
    ELSE c
ToLowerCase(str) == [k \in 1 .. Len(str) |-> ToLowerChar(str[k])]

\* the code points of the characters outside ASCII that occur below
CodePoints ==
  ("U+00E1" :> 225) @@
  ("U+00E9" :> 233) @@
  ("U+00EA" :> 234) @@
  ("U+00FC" :> 252) @@
  ("U+306E" :> 12398) @@
  ("U+4E2D" :> 20013)

\* \w of a regular expression without the u flag: [A-Za-z0-9_]
IsWordChar(c) ==
  c \in Range(UpperCase) \cup Range(LowerCase) \cup DigitChars \cup {"_"}

\* \b between str[i - 1] and str[i]
AtWordBoundary(str, i) ==
  LET before == i > 1 /\ IsWordChar(str[i - 1])
      after == i <= Len(str) /\ IsWordChar(str[i])
  IN before # after

\* /\b(w1|w2|...)\b/ and /[lo-hi...]/
WordPattern(words) == [words |-> words, ranges |-> <<>>]
ClassPattern(ranges) == [words |-> <<>>, ranges |-> ranges]

\* the length of the match of pattern that starts at str[i], 0 for none:
\* the first alternative that is there and ends at a word boundary
MatchAt(str, i, pattern) ==
  IF pattern.ranges # <<>>
    THEN IF /\ str[i] \in DOMAIN CodePoints
            /\ \E r \in Range(pattern.ranges) :
                 r[1] <= CodePoints[str[i]] /\ CodePoints[str[i]] <= r[2]
           THEN 1 ELSE 0
    ELSE
      LET fits(w) ==
            /\ i + Len(w) - 1 <= Len(str)
            /\ SubSeq(str, i, i + Len(w) - 1) = w
            /\ AtWordBoundary(str, i + Len(w))
          alts == {k \in 1 .. Len(pattern.words) : fits(pattern.words[k])}
      IN IF ~AtWordBoundary(str, i) \/ alts = {} THEN 0
         ELSE Len(pattern.words[CHOOSE k \in alts : \A l \in alts : k <= l])

\* str.match(pattern).length for a pattern with the g flag, from str[i] on
RECURSIVE CountMatches(_, _, _)
CountMatches(str, i, pattern) ==
  IF i > Len(str) THEN 0
  ELSE LET n == MatchAt(str, i, pattern)
       IN IF n = 0 THEN CountMatches(str, i + 1, pattern)
          ELSE 1 + CountMatches(str, i + n, pattern)

languagePatterns ==
  <<
   [language |-> <<"e", "n", "g", "l", "i", "s", "h">>,
    patterns |-> <<
      WordPattern(<<
          <<"t", "h", "e">>, <<"a", "n", "d">>, <<"o", "r">>,
          <<"b", "u", "t">>, <<"i", "n">>, <<"o", "n">>, <<"a", "t">>,
          <<"t", "o">>, <<"f", "o", "r">>, <<"o", "f">>,
          <<"w", "i", "t", "h">>, <<"b", "y">>, <<"f", "r", "o", "m">>,
          <<"u", "p">>, <<"a", "b", "o", "u", "t">>,
          <<"i", "n", "t", "o">>, <<"t", "h", "r", "o", "u", "g", "h">>,
          <<"d", "u", "r", "i", "n", "g">>,
          <<"b", "e", "f", "o", "r", "e">>, <<"a", "f", "t", "e", "r">>>>),
      WordPattern(<<
          <<"i", "s">>, <<"a", "r", "e">>, <<"w", "a", "s">>,
          <<"w", "e", "r", "e">>, <<"b", "e", "e", "n">>,
          <<"b", "e", "i", "n", "g">>, <<"h", "a", "v", "e">>,
          <<"h", "a", "s">>, <<"h", "a", "d">>, <<"d", "o">>,
          <<"d", "o", "e", "s">>, <<"d", "i", "d">>>>)>>],
   [language |-> <<"s", "p", "a", "n", "i", "s", "h">>,
    patterns |-> <<
      WordPattern(<<
          <<"e", "l">>, <<"l", "a">>, <<"l", "o", "s">>, <<"l", "a", "s">>,
          <<"u", "n">>, <<"u", "n", "a">>, <<"y">>, <<"o">>,
          <<"p", "e", "r", "o">>, <<"e", "n">>, <<"d", "e">>,
          <<"c", "o", "n">>, <<"p", "a", "r", "a">>, <<"p", "o", "r">>>>),
      WordPattern(<<
          <<"e", "s">>, <<"s", "o", "n">>, <<"e", "s", "t", "U+00E1">>,
          <<"e", "s", "t", "U+00E1", "n">>, <<"f", "u", "e">>,
          <<"f", "u", "e", "r", "o", "n">>, <<"s", "e", "r">>,
          <<"e", "s", "t", "a", "r">>, <<"h", "a", "b", "e", "r">>,
          <<"h", "a", "c", "e", "r">>>>)>>],
   [language |-> <<"f", "r", "e", "n", "c", "h">>,
    patterns |-> <<
      WordPattern(<<
          <<"l", "e">>, <<"l", "a">>, <<"l", "e", "s">>, <<"u", "n">>,
          <<"u", "n", "e">>, <<"e", "t">>, <<"o", "u">>,
          <<"m", "a", "i", "s">>, <<"d", "a", "n", "s">>, <<"d", "e">>,
          <<"a", "v", "e", "c">>, <<"p", "o", "u", "r">>, <<"p", "a", "r">>>>),
      WordPattern(<<
          <<"e", "s", "t">>, <<"s", "o", "n", "t">>,
          <<"U+00E9", "t", "a", "i", "t">>,
          <<"U+00E9", "t", "a", "i", "e", "n", "t">>,
          <<"U+00EA", "t", "r", "e">>, <<"a", "v", "o", "i", "r">>,
          <<"f", "a", "i", "r", "e">>>>)>>],
   [language |-> <<"g", "e", "r", "m", "a", "n">>,
    patterns |-> <<
      WordPattern(<<
          <<"d", "e", "r">>, <<"d", "i", "e">>, <<"d", "a", "s">>,
          <<"e", "i", "n">>, <<"e", "i", "n", "e">>, <<"u", "n", "d">>,
          <<"o", "d", "e", "r">>, <<"a", "b", "e", "r">>, <<"i", "n">>,
          <<"a", "u", "f">>, <<"m", "i", "t">>, <<"f", "U+00FC", "r">>,
          <<"v", "o", "n">>>>),
      WordPattern(<<
          <<"i", "s", "t">>, <<"s", "i", "n", "d">>, <<"w", "a", "r">>,
          <<"w", "a", "r", "e", "n">>, <<"s", "e", "i", "n">>,
          <<"h", "a", "b", "e", "n">>, <<"w", "e", "r", "d", "e", "n">>>>)>>],
   [language |-> <<"c", "h", "i", "n", "e", "s", "e">>,
    patterns |-> <<
      ClassPattern(<<<<19968, 40869>>>>)>>],
   [language |-> <<"j", "a", "p", "a", "n", "e", "s", "e">>,
    patterns |-> <<
      ClassPattern(<<<<12352, 12447>>, <<12448, 12543>>>>)>>],
   [language |-> <<"a", "r", "a", "b", "i", "c">>,
    patterns |-> <<
      ClassPattern(<<<<1536, 1791>>>>)>>]>>

SignificanceThreshold == 5   \* .filter(([, score]) => score > 5)
TopLanguages == 3            \* sortedLanguages.slice(0, 3)

RECURSIVE SumScores(_, _)
SumScores(textLower, patterns) ==
  IF patterns = <<>> THEN 0
  ELSE CountMatches(textLower, 1, Head(patterns))
         + SumScores(textLower, Tail(patterns))

\* the entries of languageScores, in the order of their insertion
LanguageScores(textLower) ==
  LET entry(k) == [language |-> languagePatterns[k].language,
                   score |-> SumScores(textLower,
                                       languagePatterns[k].patterns)]
      all == [k \in 1 .. Len(languagePatterns) |-> entry(k)]
      kept(e) == e.score > 0
  IN SelectSeq(all, kept)

\* Array.prototype.sort((a, b) => b - a), a stable sort
RECURSIVE SortByScore(_)
SortByScore(entries) ==
  IF entries = <<>> THEN <<>>
  ELSE LET n == Len(entries)
           front == SortByScore(SubSeq(entries, 1, n - 1))
           e == entries[n]
           k == Cardinality({j \in 1 .. Len(front) :
                               front[j].score >= e.score})
       IN SubSeq(front, 1, k) \o <<e>> \o SubSeq(front, k + 1, Len(front))

\* language.charAt(0).toUpperCase() + language.slice(1)
Capitalize(str) ==
  IF str = <<>> THEN <<>> ELSE <<ToUpperChar(str[1])>> \o Tail(str)

English == <<"E", "n", "g", "l", "i", "s", "h">>

\* the sorted languages above the threshold
SortedLanguages(text) ==
  LET significant(e) == e.score > SignificanceThreshold
  IN SelectSeq(SortByScore(LanguageScores(ToLowerCase(text))), significant)

\* detectLanguages without the slice(0, 3)
detectLanguages_NoSlice(text) ==
  LET sorted == SortedLanguages(text)
      detected == [k \in 1 .. Len(sorted) |-> Capitalize(sorted[k].language)]
  IN IF detected = <<>> THEN <<English>> ELSE detected

detectLanguages(text) ==
  LET sorted == SortedLanguages(text)
      top == SubSeq(sorted, 1, IF Len(sorted) < TopLanguages
                                 THEN Len(sorted) ELSE TopLanguages)
      detected == [k \in 1 .. Len(top) |-> Capitalize(top[k].language)]
  IN IF detected = <<>> THEN <<English>> ELSE detected

RECURSIVE Repeat(_, _)
Repeat(str, n) == IF n = 0 THEN <<>> ELSE str \o Repeat(str, n - 1)

NumericText == <<"1", "2", "3", " ", "4", "5", "6", " ", "7", "8", "9">>

\* texts around the threshold: n words of a language give it the score n
\* ("then" holds "the" but no word boundary, "la" is Spanish and French,
\* the last piece is one Han character and one hiragana)
RepeatCounts == {0} \cup (SignificanceThreshold .. MaxRepeat)
DetectTexts ==
  {Repeat(<<"T", "h", "e", " ", "t", "h", "e", "n", " ">>, a) \o Repeat(<<"l", "a", " ">>, b) \o Repeat(<<"d", "e", "r", " ">>, c) \o Repeat(<<"U+4E2D", "U+306E">>, d) :
     a \in RepeatCounts, b \in RepeatCounts, c \in RepeatCounts,
     d \in RepeatCounts}
  \cup {NumericText}

\* JavaScript values: v holds the characters of a string, the one number of
\* a number, the elements of an array
Undefined == [t |-> "undefined", v |-> <<>>]
Null == [t |-> "null", v |-> <<>>]
Str(s) == [t |-> "string", v |-> s]
Num(n) == [t |-> "number", v |-> <<n>>]
Arr(items) == [t |-> "array", v |-> items]

\* countryToNationality: <<key, nationality>>, in the order of the literal
countryToNationality ==
  <<
   <<<<"u", "n", "i", "t", "e", "d", " ", "s", "t", "a", "t", "e", "s">>,
     <<"A", "m", "e", "r", "i", "c", "a", "n">>>>,
   <<<<"u", "s", "a">>,
     <<"A", "m", "e", "r", "i", "c", "a", "n">>>>,
   <<<<"a", "m", "e", "r", "i", "c", "a">>,
     <<"A", "m", "e", "r", "i", "c", "a", "n">>>>,
   <<<<"u", "n", "i", "t", "e", "d", " ", "k", "i", "n", "g", "d", "o", "m">>,
     <<"B", "r", "i", "t", "i", "s", "h">>>>,
   <<<<"u", "k">>,
     <<"B", "r", "i", "t", "i", "s", "h">>>>,
   <<<<"b", "r", "i", "t", "a", "i", "n">>,
     <<"B", "r", "i", "t", "i", "s", "h">>>>,
   <<<<"e", "n", "g", "l", "a", "n", "d">>,
     <<"E", "n", "g", "l", "i", "s", "h">>>>,
   <<<<"s", "c", "o", "t", "l", "a", "n", "d">>,
     <<"S", "c", "o", "t", "t", "i", "s", "h">>>>,
   <<<<"w", "a", "l", "e", "s">>,
     <<"W", "e", "l", "s", "h">>>>,
   <<<<"f", "r", "a", "n", "c", "e">>,
     <<"F", "r", "e", "n", "c", "h">>>>,
   <<<<"g", "e", "r", "m", "a", "n", "y">>,
     <<"G", "e", "r", "m", "a", "n">>>>,
   <<<<"s", "p", "a", "i", "n">>,
     <<"S", "p", "a", "n", "i", "s", "h">>>>,
   <<<<"i", "t", "a", "l", "y">>,
     <<"I", "t", "a", "l", "i", "a", "n">>>>,
   <<<<"c", "a", "n", "a", "d", "a">>,
     <<"C", "a", "n", "a", "d", "i", "a", "n">>>>,
   <<<<"a", "u", "s", "t", "r", "a", "l", "i", "a">>,
     <<"A", "u", "s", "t", "r", "a", "l", "i", "a", "n">>>>,
   <<<<"j", "a", "p", "a", "n">>,
     <<"J", "a", "p", "a", "n", "e", "s", "e">>>>,
   <<<<"c", "h", "i", "n", "a">>,
     <<"C", "h", "i", "n", "e", "s", "e">>>>,
   <<<<"i", "n", "d", "i", "a">>,
     <<"I", "n", "d", "i", "a", "n">>>>,
   <<<<"b", "r", "a", "z", "i", "l">>,
     <<"B", "r", "a", "z", "i", "l", "i", "a", "n">>>>,
   <<<<"m", "e", "x", "i", "c", "o">>,
     <<"M", "e", "x", "i", "c", "a", "n">>>>,
   <<<<"r", "u", "s", "s", "i", "a">>,
     <<"R", "u", "s", "s", "i", "a", "n">>>>,
   <<<<"s", "o", "u", "t", "h", " ", "k", "o", "r", "e", "a">>,
     <<"S", "o", "u", "t", "h", " ", "K", "o", "r", "e", "a", "n">>>>,
   <<<<"k", "o", "r", "e", "a">>,
     <<"K", "o", "r", "e", "a", "n">>>>,
   <<<<"n", "e", "t", "h", "e", "r", "l", "a", "n", "d", "s">>,
     <<"D", "u", "t", "c", "h">>>>,
   <<<<"b", "e", "l", "g", "i", "u", "m">>,
     <<"B", "e", "l", "g", "i", "a", "n">>>>,
   <<<<"s", "w", "i", "t", "z", "e", "r", "l", "a", "n", "d">>,
     <<"S", "w", "i", "s", "s">>>>,
   <<<<"s", "w", "e", "d", "e", "n">>,
     <<"S", "w", "e", "d", "i", "s", "h">>>>,
   <<<<"n", "o", "r", "w", "a", "y">>,
     <<"N", "o", "r", "w", "e", "g", "i", "a", "n">>>>,
   <<<<"d", "e", "n", "m", "a", "r", "k">>,
     <<"D", "a", "n", "i", "s", "h">>>>,
   <<<<"f", "i", "n", "l", "a", "n", "d">>,
     <<"F", "i", "n", "n", "i", "s", "h">>>>,
   <<<<"p", "o", "l", "a", "n", "d">>,
     <<"P", "o", "l", "i", "s", "h">>>>,
   <<<<"a", "u", "s", "t", "r", "i", "a">>,
     <<"A", "u", "s", "t", "r", "i", "a", "n">>>>,
   <<<<"g", "r", "e", "e", "c", "e">>,
     <<"G", "r", "e", "e", "k">>>>,
   <<<<"p", "o", "r", "t", "u", "g", "a", "l">>,
     <<"P", "o", "r", "t", "u", "g", "u", "e", "s", "e">>>>,
   <<<<"i", "r", "e", "l", "a", "n", "d">>,
     <<"I", "r", "i", "s", "h">>>>,
   <<<<"n", "e", "w", " ", "z", "e", "a", "l", "a", "n", "d">>,
     <<"N", "e", "w", " ", "Z", "e", "a", "l", "a", "n", "d", "e", "r">>>>,
   <<<<"s", "i", "n", "g", "a", "p", "o", "r", "e">>,
     <<"S", "i", "n", "g", "a", "p", "o", "r", "e", "a", "n">>>>,
   <<<<"m", "a", "l", "a", "y", "s", "i", "a">>,
     <<"M", "a", "l", "a", "y", "s", "i", "a", "n">>>>,
   <<<<"t", "h", "a", "i", "l", "a", "n", "d">>,
     <<"T", "h", "a", "i">>>>,
   <<<<"i", "n", "d", "o", "n", "e", "s", "i", "a">>,
     <<"I", "n", "d", "o", "n", "e", "s", "i", "a", "n">>>>,
   <<<<"p", "h", "i", "l", "i", "p", "p", "i", "n", "e", "s">>,
     <<"F", "i", "l", "i", "p", "i", "n", "o">>>>,
   <<<<"v", "i", "e", "t", "n", "a", "m">>,
     <<"V", "i", "e", "t", "n", "a", "m", "e", "s", "e">>>>,
   <<<<"t", "u", "r", "k", "e", "y">>,
     <<"T", "u", "r", "k", "i", "s", "h">>>>,
   <<<<"e", "g", "y", "p", "t">>,
     <<"E", "g", "y", "p", "t", "i", "a", "n">>>>,
   <<<<"s", "o", "u", "t", "h", " ", "a", "f", "r", "i", "c", "a">>,
     <<"S", "o", "u", "t", "h", " ", "A", "f", "r", "i", "c", "a", "n">>>>,
   <<<<"n", "i", "g", "e", "r", "i", "a">>,
     <<"N", "i", "g", "e", "r", "i", "a", "n">>>>,
   <<<<"k", "e", "n", "y", "a">>,
     <<"K", "e", "n", "y", "a", "n">>>>,
   <<<<"i", "s", "r", "a", "e", "l">>,
     <<"I", "s", "r", "a", "e", "l", "i">>>>,
   <<<<"s", "a", "u", "d", "i", " ", "a", "r", "a", "b", "i", "a">>,
     <<"S", "a", "u", "d", "i">>>>,
   <<<<"u", "a", "e">>,
     <<"E", "m", "i", "r", "a", "t", "i">>>>,
   <<<<"a", "r", "g", "e", "n", "t", "i", "n", "a">>,
     <<"A", "r", "g", "e", "n", "t", "i", "n", "i", "a", "n">>>>,
   <<<<"c", "h", "i", "l", "e">>,
     <<"C", "h", "i", "l", "e", "a", "n">>>>,
   <<<<"c", "o", "l", "o", "m", "b", "i", "a">>,
     <<"C", "o", "l", "o", "m", "b", "i", "a", "n">>>>,
   <<<<"p", "e", "r", "u">>,
     <<"P", "e", "r", "u", "v", "i", "a", "n">>>>,
   <<<<"v", "e", "n", "e", "z", "u", "e", "l", "a">>,
     <<"V", "e", "n", "e", "z", "u", "e", "l", "a", "n">>>>,
   <<<<"U+80AF", "U+5C3C", "U+4E9A">>,
     <<"K", "e", "n", "y", "a", "n">>>>,
   <<<<"U+52A0", "U+62FF", "U+5927">>,
     <<"C", "a", "n", "a", "d", "i", "a", "n">>>>,
   <<<<"U+897F", "U+73ED", "U+7259">>,
     <<"S", "p", "a", "n", "i", "s", "h">>>>,
   <<<<"U+97E9", "U+56FD">>,
     <<"S", "o", "u", "t", "h", " ", "K", "o", "r", "e", "a", "n">>>>,
   <<<<"U+963F", "U+6839", "U+5EF7">>,
     <<"A", "r", "g", "e", "n", "t", "i", "n", "i", "a", "n">>>>,
   <<<<"U+57C3", "U+53CA">>,
     <<"E", "g", "y", "p", "t", "i", "a", "n">>>>,
   <<<<"U+745E", "U+5178">>,
     <<"S", "w", "e", "d", "i", "s", "h">>>>,
   <<<<"U+82AC", "U+5170">>,
     <<"F", "i", "n", "n", "i", "s", "h">>>>,
   <<<<"U+6CF0", "U+56FD">>,
     <<"T", "h", "a", "i">>>>,
   <<<<"U+5370", "U+5EA6", "U+5C3C", "U+897F", "U+4E9A">>,
     <<"I", "n", "d", "o", "n", "e", "s", "i", "a", "n">>>>,
   <<<<"U+5DF4", "U+897F">>,
     <<"B", "r", "a", "z", "i", "l", "i", "a", "n">>>>,
   <<<<"U+7F8E", "U+56FD">>,
     <<"A", "m", "e", "r", "i", "c", "a", "n">>>>,
   <<<<"U+4E2D", "U+56FD">>,
     <<"C", "h", "i", "n", "e", "s", "e">>>>,
   <<<<"U+65E5", "U+672C">>,
     <<"J", "a", "p", "a", "n", "e", "s", "e">>>>,
   <<<<"U+6CD5", "U+56FD">>,
     <<"F", "r", "e", "n", "c", "h">>>>,
   <<<<"U+5FB7", "U+56FD">>,
     <<"G", "e", "r", "m", "a", "n">>>>,
   <<<<"U+610F", "U+5927", "U+5229">>,
     <<"I", "t", "a", "l", "i", "a", "n">>>>,
   <<<<"U+82F1", "U+56FD">>,
     <<"B", "r", "i", "t", "i", "s", "h">>>>,
   <<<<"U+6FB3", "U+5927", "U+5229", "U+4E9A">>,
     <<"A", "u", "s", "t", "r", "a", "l", "i", "a", "n">>>>,
   <<<<"U+5370", "U+5EA6">>,
     <<"I", "n", "d", "i", "a", "n">>>>,
   <<<<"U+4FC4", "U+56FD">>,
     <<"R", "u", "s", "s", "i", "a", "n">>>>,
   <<<<"U+4FC4", "U+7F57", "U+65AF">>,
     <<"R", "u", "s", "s", "i", "a", "n">>>>>>

\* the properties the object literal inherits from Object.prototype:
\* functions, and the prototype itself
InheritedKeys ==
  {<<"c", "o", "n", "s", "t", "r", "u", "c", "t", "o", "r">>,
   <<"h", "a", "s", "O", "w", "n", "P", "r", "o", "p", "e", "r", "t", "y">>,
   <<"i", "s", "P", "r", "o", "t", "o", "t", "y", "p", "e", "O", "f">>,
   <<"p", "r", "o", "p", "e", "r", "t", "y", "I", "s", "E", "n", "u", "m", "e", "r", "a", "b", "l", "e">>,
   <<"t", "o", "L", "o", "c", "a", "l", "e", "S", "t", "r", "i", "n", "g">>,
   <<"t", "o", "S", "t", "r", "i", "n", "g">>,
   <<"v", "a", "l", "u", "e", "O", "f">>,
   <<"_", "_", "p", "r", "o", "t", "o", "_", "_">>}
Inherited(name) == [t |-> "function", v |-> name]

\* countryToNationality[name] is there (truthy): an own key, or an
\* inherited one
OwnKey(name) ==
  \E k \in 1 .. Len(countryToNationality) : countryToNationality[k][1] = name
HasKey(name) == OwnKey(name) \/ name \in InheritedKeys
Lookup(name) ==
  IF OwnKey(name)
    THEN Str(countryToNationality[CHOOSE k \in 1 .. Len(countryToNationality) :
                                    countryToNationality[k][1] = name][2])
    ELSE Inherited(name)

\* String.prototype.includes
Includes(str, part) ==
  \E i \in 0 .. Len(str) - Len(part) : SubSeq(str, i + 1, i + Len(part)) = part

\* the body of the loop of extractNationalities for one string: the
\* value added, as a sequence of one element, or <<>>
NationalityOf(country) ==
  LET countryTrimmed == Trim(country)
      countryLower == ToLowerCase(countryTrimmed)
      partial(key) ==
        \/ Includes(countryLower, key) \/ Includes(key, countryLower)
        \/ Includes(countryTrimmed, key) \/ Includes(key, countryTrimmed)
      hits == {k \in 1 .. Len(countryToNationality) :
                 partial(countryToNationality[k][1])}
  IN IF HasKey(countryTrimmed) THEN <<Lookup(countryTrimmed)>>
     ELSE IF HasKey(countryLower) THEN <<Lookup(countryLower)>>
     ELSE IF hits = {} THEN <<>>
     ELSE <<Str(countryToNationality[CHOOSE k \in hits :
                                       \A l \in hits : k <= l][2])>>

\* Set.prototype.add without the test for membership
SetAdd_Always(set, x) == Append(set, x)

\* Set.prototype.add, the Set kept in the order of insertion
SetAdd(set, x) == IF x \in Range(set) THEN set ELSE Append(set, x)

RECURSIVE AddNationalities(_, _)
AddNationalities(items, set) ==
  IF items = <<>> THEN set
  ELSE IF Head(items).t # "string" \/ NationalityOf(Head(items).v) = <<>>
    THEN AddNationalities(Tail(items), set)
  ELSE AddNationalities(Tail(items),
                        SetAdd(set, NationalityOf(Head(items).v)[1]))

extractNationalities(countries) ==
  IF countries.t # "array" THEN Arr(<<>>)
  ELSE Arr(AddNationalities(countries.v, <<>>))

USA == <<"U", "S", "A">>
UnitedStates == <<"U", "n", "i", "t", "e", "d", " ", "S", "t", "a", "t", "e", "s">>
America == <<"A", "m", "e", "r", "i", "c", "a">>
American == <<"A", "m", "e", "r", "i", "c", "a", "n">>
France == <<" ", "F", "r", "a", "n", "c", "e">>
French == <<"F", "r", "e", "n", "c", "h">>
German == <<"G", "e", "r", "m", "a", "n">>
Narnia == <<"N", "a", "r", "n", "i", "a">>

\* single names: every key of the table as it is, capitalized and with
\* blanks around it, names without a key, blank names and names of
\* inherited properties
TableKeys ==
  {countryToNationality[k][1] : k \in 1 .. Len(countryToNationality)}
CountryNames ==
  TableKeys
    \cup {Capitalize(key) : key \in TableKeys}
    \cup {<<" ">> \o key \o <<" ">> : key \in TableKeys}
    \cup {USA, UnitedStates, America, France, French, German, Narnia,
          <<>>, <<" ">>, <<"N", "i", "g", "e", "r">>,
          <<"c", "o", "n", "s", "t", "r", "u", "c", "t", "o", "r">>,
          <<"t", "o", "S", "t", "r", "i", "n", "g">>}

\* lists of at most MaxCountries names
CountryInputs ==
  {Str(USA), Str(UnitedStates), Str(America), Str(France), Str(French),
   Str(Narnia)}
CountryLists ==
  UNION {[1 .. n -> CountryInputs] : n \in 0 .. MaxCountries}

\* a value in a condition: if (x)
Truthy(x) ==
  CASE x.t \in {"undefined", "null"} -> FALSE
    [] x.t = "string" -> x.v # <<>>
    [] x.t = "number" -> x.v[1] # 0
    [] OTHER -> TRUE

IsArray(x) == x.t = "array"

\* Array.prototype.join: null and undefined give '', an array inside is
\* joined with commas
RECURSIVE ElementString(_)
JoinArray(items, sep) ==
  Join([k \in 1 .. Len(items) |-> ElementString(items[k])], sep)
ElementString(x) ==
  CASE x.t \in {"undefined", "null"} -> <<>>
    [] x.t = "string" -> x.v
    [] x.t = "number" -> <<ToString(x.v[1])>>
    [] OTHER -> JoinArray(x.v, <<",">>)

\* the summary with a scalar article_summary behind the summary field
summary_SummaryFirst(apiResponse) ==
  IF IsArray(apiResponse.article_summary)
    THEN Str(JoinArray(apiResponse.article_summary.v, <<" ">>))
  ELSE IF Truthy(apiResponse.summary) THEN apiResponse.summary
  ELSE IF Truthy(apiResponse.article_summary)
    THEN apiResponse.article_summary
  ELSE Str(<<>>)

\* mapApiResponseToPRD: let summary
summary(apiResponse) ==
  IF Truthy(apiResponse.article_summary)
    THEN IF IsArray(apiResponse.article_summary)
           THEN Str(JoinArray(apiResponse.article_summary.v, <<" ">>))
           ELSE apiResponse.article_summary
  ELSE IF Truthy(apiResponse.summary) THEN apiResponse.summary
  ELSE Str(<<>>)

\* the list taken from nationalities before countries
countries_NationalitiesFirst(apiResponse) ==
  IF /\ Truthy(apiResponse.nationalities)
     /\ IsArray(apiResponse.nationalities)
    THEN apiResponse.nationalities
  ELSE IF Truthy(apiResponse.countries) /\ IsArray(apiResponse.countries)
    THEN apiResponse.countries
  ELSE Arr(<<>>)

\* mapApiResponseToPRD: let countries
countries(apiResponse) ==
  IF Truthy(apiResponse.countries) /\ IsArray(apiResponse.countries)
    THEN apiResponse.countries
  ELSE IF /\ Truthy(apiResponse.nationalities)
          /\ IsArray(apiResponse.nationalities)
    THEN apiResponse.nationalities
  ELSE Arr(<<>>)

\* an array of strings as a JavaScript value
StringArray(strs) == Arr([k \in 1 .. Len(strs) |-> Str(strs[k])])

\* the languages taken from language before languages
languages_LanguageFirst(apiResponse, originalText) ==
  IF Truthy(apiResponse.language) /\ IsArray(apiResponse.language)
    THEN apiResponse.language
  ELSE IF Truthy(apiResponse.languages) /\ IsArray(apiResponse.languages)
    THEN apiResponse.languages
  ELSE IF Truthy(originalText)
    THEN StringArray(detectLanguages(originalText.v))
  ELSE StringArray(<<English>>)

\* mapApiResponseToPRD: let languages
languages(apiResponse, originalText) ==
  IF Truthy(apiResponse.languages) /\ IsArray(apiResponse.languages)
    THEN apiResponse.languages
  ELSE IF Truthy(apiResponse.language) /\ IsArray(apiResponse.language)
    THEN apiResponse.language
  ELSE IF Truthy(originalText)
    THEN StringArray(detectLanguages(originalText.v))
  ELSE StringArray(<<English>>)

\* an absent field of apiResponse is Undefined
mapApiResponseToPRD(apiResponse, originalText) ==
  [article_summary |-> summary(apiResponse),
   nationalities |-> extractNationalities(countries(apiResponse)),
   organizations |-> IF IsArray(apiResponse.organizations)
                       THEN apiResponse.organizations ELSE Arr(<<>>),
   people |-> IF IsArray(apiResponse.people)
                THEN apiResponse.people ELSE Arr(<<>>),
   languages |-> languages(apiResponse, originalText)]

\* loosely typed responses
SummaryInputs ==
  {Undefined, Str(<<>>), Str(<<"S">>), Arr(<<>>),
   Arr(<<Str(<<"A">>), Str(<<"B">>)>>), Num(4)}
ApiResponses ==
  {[article_summary |-> a, summary |-> s, countries |-> c,
    nationalities |-> n, organizations |-> o, people |-> p,
    languages |-> ls, language |-> l] :
     a \in SummaryInputs,
     s \in {Undefined, Str(<<"T">>)},
     c \in {Undefined, Str(France), Arr(<<Str(France)>>),
            Arr(<<Num(1), Str(France)>>)},
     n \in {Undefined, Arr(<<Str(USA)>>)},
     o \in {Undefined, Str(<<"O">>), Arr(<<Str(<<"O">>)>>), Arr(<<Num(1)>>)},
     p \in {Null, Arr(<<Str(<<"P">>)>>)},
     ls \in {Undefined, Arr(<<>>), Arr(<<Str(French)>>)},
     l \in {Undefined, Arr(<<>>), Arr(<<Str(German)>>)}}
OriginalTexts ==
  {Undefined, Str(<<>>), Str(Repeat(<<"l", "a", " ">>, 6))}

\* --------------------------- client: analyzeContent and useTextAnalysis
\* import.meta.env.VITE_ANALYZER_API_URL: undefined, or a string of which
\* only the leading scheme matters
ApiUrl(defined, scheme) == [defined |-> defined, scheme |-> scheme]
ApiUrls == {ApiUrl(TRUE, "https://"), ApiUrl(TRUE, "http://"),
            ApiUrl(TRUE, ""), ApiUrl(FALSE, "")}

\* the argument of mutate(): text (absent and '' are both <<>>), file and
\* accessToken present or not
ClientRequests ==
  {[apiUrl |-> u, text |-> t, file |-> f, accessToken |-> a] :
     u \in ApiUrls, t \in {<<>>, <<" ">>, <<"a">>}, f \in BOOLEAN,
     a \in BOOLEAN}

\* thrown values: ApiError with its category, or another Error
ApiError(category) == [apiError |-> TRUE, category |-> category]
OtherError(name) == [apiError |-> FALSE, category |-> name]
NoError == [apiError |-> FALSE, category |-> ""]

\* analyzeContent up to the fetch call: the error thrown, or NoError
Precheck(request) ==
  IF ~request.apiUrl.defined THEN OtherError("TypeError")
  ELSE IF request.apiUrl.scheme # "https://" THEN ApiError("config")
  ELSE IF Trim(request.text) = <<>> /\ ~request.file
    THEN ApiError("validation")
  ELSE IF ~request.accessToken THEN ApiError("validation")
  ELSE NoError

\* the catch block of analyzeContent, on what fetch rejected with
CatchFetch(thrown) ==
  IF thrown = "AbortError" THEN ApiError("network")
  ELSE IF thrown = "TypeError: Failed to fetch" THEN ApiError("network")
  ELSE ApiError("request")

FetchRejections == {"TypeError: Failed to fetch", "Error: other", "non-Error"}

\* retry() allowing one attempt more
Retry_OneMore(failureCount, error) ==
  IF error.apiError /\ error.category \in {"config", "validation"}
    THEN FALSE
    ELSE failureCount <= RetryLimit

\* useTextAnalysis: retry: (failureCount, error) => ...
Retry(failureCount, error) ==
  IF error.apiError /\ error.category \in {"config", "validation"}
    THEN FALSE
    ELSE failureCount < RetryLimit

IdleMut ==
  [status |-> "idle",
   request |-> [apiUrl |-> ApiUrl(FALSE, ""), text |-> <<>>, file |-> FALSE,
                accessToken |-> FALSE],
   attempts |-> 0, failureCount |-> 0, failures |-> <<>>,
   call |-> "none", elapsed |-> 0, timer |-> FALSE, aborted |-> FALSE]

\* the mutation after an attempt threw error: the retryer asks retry() and
\* either schedules the next attempt or gives up
FailAttempt(m, error) ==
  IF Retry(m.failureCount, error)
    THEN [m EXCEPT !.failureCount = @ + 1,
                   !.failures = Append(@, error),
                   !.call = "retrywait", !.timer = FALSE]
    ELSE [m EXCEPT !.status = "error",
                   !.failures = Append(@, error),
                   !.call = "none", !.timer = FALSE]

\* one call of analyzeContent(request), up to its await fetch(...)
StartAttempt(m) ==
  LET a == [m EXCEPT !.attempts = @ + 1, !.elapsed = 0, !.aborted = FALSE]
  IN IF Precheck(m.request) # NoError
       THEN FailAttempt(a, Precheck(m.request))
       ELSE [a EXCEPT !.call = "fetching", !.timer = TRUE]

\* mutate(request)
Mutate(request) ==
  /\ mut.status = "idle"
  /\ mut' = StartAttempt([mut EXCEPT !.status = "pending",
                                     !.request = request])
  /\ UNCHANGED <<serverVars, pageVars, fn>>

\* the retryer runs the mutation function again
RetryRuns ==
  /\ mut.call = "retrywait"
  /\ mut' = StartAttempt(mut)
  /\ UNCHANGED <<serverVars, pageVars, fn>>

\* time passes while the call is under way; a due timer fires first
ClientTick ==
  /\ mut.call \in {"fetching", "body"}
  /\ ~(mut.timer /\ mut.elapsed >= ClientTimeoutSec)
  /\ mut.elapsed + ClientTickSec <= MaxElapsedSec
  /\ mut' = [mut EXCEPT !.elapsed = @ + ClientTickSec]
  /\ UNCHANGED <<serverVars, pageVars, fn>>

\* setTimeout(() => controller.abort(), DEFAULT_TIMEOUT): fetch rejects with
\* AbortError
TimerFires ==
  /\ mut.timer
  /\ mut.elapsed >= ClientTimeoutSec
  /\ mut.call = "fetching"
  /\ mut' = FailAttempt([mut EXCEPT !.aborted = TRUE],
                        CatchFetch("AbortError"))
  /\ UNCHANGED <<serverVars, pageVars, fn>>

\* fetch resolves with the response head: clearTimeout, then the status
\* check and return response.json()
FetchResolves(ok) ==
  /\ mut.call = "fetching"
  /\ mut' = IF ok THEN [mut EXCEPT !.call = "body", !.timer = FALSE]
                  ELSE FailAttempt(mut, ApiError("request"))
  /\ UNCHANGED <<serverVars, pageVars, fn>>

\* fetch rejects by itself
FetchRejects(thrown) ==
  /\ mut.call = "fetching"
  /\ mut' = FailAttempt(mut, CatchFetch(thrown))
  /\ UNCHANGED <<serverVars, pageVars, fn>>

\* the promise of response.json(), returned from inside the try block
\* without await, settles: its rejection passes the catch block by
BodySettles(ok) ==
  /\ mut.call = "body"
  /\ mut' = IF ok THEN [mut EXCEPT !.status = "success", !.call = "none"]
                  ELSE FailAttempt(mut, OtherError("SyntaxError"))
  /\ UNCHANGED <<serverVars, pageVars, fn>>

\* ------------------------------------------------------- Index.tsx
Obj(name) == [t |-> "object", v |-> <<name>>]

\* an item of localStorage: missing (getItem gives null), the empty text,
\* a text that JSON.parse refuses, or one that it turns into a value
Missing == [kind |-> "missing", value |-> Null]
EmptyText == [kind |-> "empty", value |-> Null]
Unparsable == [kind |-> "unparsable", value |-> Null]
\* JSON.stringify(value), which JSON.parse turns back into value
Stringified(value) == [kind |-> "json", value |-> value]

\* the item read by getItem is a non-empty text
TruthyItem(item) == item.kind \in {"unparsable", "json"}

UserData == {Obj("user 1"), Obj("user 2")}
SessionData == {Obj("session 1"), Obj("session 2")}

StoredItems(values) ==
  {Missing, EmptyText, Unparsable, Stringified(Null), Stringified(Num(0)),
   Stringified(Str(<<"a">>))}
    \cup {Stringified(v) : v \in values}

IdleIdx ==
  [mounted |-> FALSE, user |-> Null, session |-> Null,
   storage |-> [user |-> Missing, session |-> Missing]]

ClearedStorage == [user |-> Missing, session |-> Missing]

\* useEffect(..., []): the state restored from localStorage.  setUser has
\* been called when JSON.parse(storedSession) throws.
Mount ==
  /\ ~idx.mounted
  /\ idx' =
       LET storedUser == idx.storage.user
           storedSession == idx.storage.session
       IN IF ~(TruthyItem(storedUser) /\ TruthyItem(storedSession))
            THEN [idx EXCEPT !.mounted = TRUE]
          ELSE IF storedUser.kind # "json"
            THEN [idx EXCEPT !.mounted = TRUE, !.storage = ClearedStorage]
          ELSE IF storedSession.kind # "json"
            THEN [idx EXCEPT !.mounted = TRUE, !.user = storedUser.value,
                             !.storage = ClearedStorage]
          ELSE [idx EXCEPT !.mounted = TRUE, !.user = storedUser.value,
                           !.session = storedSession.value]
  /\ UNCHANGED <<serverVars, mut, fn, ui>>

\* handleLogin, called by the Login view, which is shown when !user
HandleLogin(userData, sessionData) ==
  /\ idx.mounted
  /\ ~Truthy(idx.user)
  /\ idx' = [idx EXCEPT !.user = userData, !.session = sessionData,
                        !.storage = [user |-> Stringified(userData),
                                     session |-> Stringified(sessionData)]]
  /\ UNCHANGED <<serverVars, mut, fn, ui>>

\* handleLogout, called by the analyzer view
HandleLogout ==
  /\ idx.mounted
  /\ Truthy(idx.user)
  /\ idx' = [idx EXCEPT !.user = Null, !.session = Null,
                        !.storage = ClearedStorage]
  /\ UNCHANGED <<serverVars, mut, fn, ui>>

\* the page is loaded again: the state starts over, localStorage stays
Reload ==
  /\ idx.mounted
  /\ idx' = [idx EXCEPT !.mounted = FALSE, !.user = Null, !.session = Null]
  /\ UNCHANGED <<serverVars, mut, fn, ui>>

\* ------------------------------------------------ Login.tsx: handleAuth
\* what the form holds when it is submitted
AuthForms ==
  {[op |-> "handleAuth", apiUrl |-> u, isSignUp |-> i, email |-> e,
    password |-> p, called |-> FALSE, fetched |-> FALSE, endpoint |-> ""] :
     u \in ApiUrls, i \in BOOLEAN, e \in {"", "a@x.io"},
     p \in {<<>>} \cup PasswordInputs}

\* analyzeContent called by itself
AnalyzeCalls ==
  {[op |-> "analyzeContent", apiUrl |-> r.apiUrl, request |-> r,
    called |-> FALSE, fetched |-> FALSE, endpoint |-> ""] :
     r \in ClientRequests}

\* an empty or undefined apiUrl is falsy
UrlConfigured(apiUrl) == apiUrl.defined /\ apiUrl # ApiUrl(TRUE, "")

\* handleAuth up to its fetch: the two checks, then
\* fetch(`${apiUrl}${endpoint}`, ...)
CallHandleAuth ==
  /\ fn.op = "handleAuth"
  /\ ~fn.called
  /\ fn' = IF fn.email = "" \/ fn.password = <<>> \/ ~UrlConfigured(fn.apiUrl)
             THEN [fn EXCEPT !.called = TRUE]
             ELSE [fn EXCEPT !.called = TRUE, !.fetched = TRUE,
                             !.endpoint = IF fn.isSignUp THEN "/signup"
                                          ELSE "/login"]
  /\ UNCHANGED <<serverVars, pageVars, mut>>

\* analyzeContent up to its fetch(`${apiUrl}/analyze`, ...)
CallAnalyzeContent ==
  /\ fn.op = "analyzeContent"
  /\ ~fn.called
  /\ fn' = IF Precheck(fn.request) # NoError
             THEN [fn EXCEPT !.called = TRUE]
             ELSE [fn EXCEPT !.called = TRUE, !.fetched = TRUE,
                             !.endpoint = "/analyze"]
  /\ UNCHANGED <<serverVars, pageVars, mut>>

\* ------------------------------------------------ fileValidation.ts
ALLOWED_FILE_TYPES ==
  {"text/plain",
   "application/vnd.openxmlformats-officedocument.wordprocessingml.document",
   "application/pdf"}

\* file.size > MAX_FILE_SIZE, then the MIME type
validateFile(file) ==
  IF file.sizeMB > MaxFileSizeMB
    THEN [isValid |-> FALSE, error |-> "File size exceeds limit"]
  ELSE IF file.type \notin ALLOWED_FILE_TYPES
    THEN [isValid |-> FALSE, error |-> "Unsupported file type"]
  ELSE [isValid |-> TRUE, error |-> ""]

\* files as the browser hands them over: the type goes with the extension
LogName == << <<"a">>, <<".","l","o","g">> >>
ClientFile(name, type, sizeMB, content) ==
  [present |-> TRUE, name |-> name, type |-> type, sizeMB |-> sizeMB,
   content |-> content]
ClientFiles ==
  {ClientFile(f[1], f[2], size, content) :
     f \in {<<TxtName, "text/plain">>,
            <<LogName, "text/plain">>,
            <<DocxName, "application/vnd.openxmlformats-officedocument.wordprocessingml.document">>,
            <<PdfName, "application/pdf">>,
            <<ExeName, "application/x-msdownload">>},
     size \in {1, MaxFileSizeMB - 1, MaxFileSizeMB, MaxFileSizeMB + 1},
     content \in {<<>>, <<"b">>}}

\* handleFileSelect: the chosen file is validated
CallValidateFile ==
  /\ fn.op = "validateFile"
  /\ fn.pc = "chosen"
  /\ fn' = [fn EXCEPT !.pc = "validated",
                      !.validation = validateFile(fn.file)]
  /\ UNCHANGED <<serverVars, pageVars, mut>>

\* a file that passed is sent to POST /analyze as the file field of a form,
\* and the handler's first block answers or goes on
SubmitFile(mammothOk, s3Ok) ==
  /\ fn.op = "validateFile"
  /\ fn.pc = "validated"
  /\ fn.validation.isValid
  /\ fn' = [fn EXCEPT
       !.pc = "answered",
       !.response =
         ParseBody([header |-> NoHeader,
                    contentType |-> "multipart/form-data",
                    text |-> <<>>, file |-> fn.file],
                   TRUE, mammothOk, s3Ok, 1).response]
  /\ UNCHANGED <<serverVars, pageVars, mut>>

\* ------------------------------- POST /signup, statement by statement
SignupCallers == 1 .. 2

NoSignup ==
  [pc |-> "idle", email |-> "", password |-> <<>>, user_id |-> 0,
   created |-> FALSE, session_id |-> 0, token |-> 0, response |-> NoResponse]

IdleSu == [calls |-> [p \in SignupCallers |-> NoSignup], started |-> 0]

\* no UNIQUE constraint on users.email
UniqueViolation_None(email) == FALSE

\* email VARCHAR UNIQUE NOT NULL: the INSERT of a second row is refused
UniqueViolation(email) == \E u \in users : u.email = email

\* the handler up to its SELECT: 400 for a body the schema refuses, 409 when
\* the email has a row, and otherwise on to the INSERT
SignupCheck(p, email, password) ==
  /\ su.calls[p].pc = "idle"
  /\ su.started < MaxSignups
  /\ su' = [su EXCEPT
       !.started = @ + 1,
       !.calls[p] =
         IF ~ValidCredentials(email, password)
           THEN [NoSignup EXCEPT
                   !.email = email,
                   !.response = Json([error |-> "Invalid email or password"],
                                     400)]
         ELSE IF \E u \in users : u.email = NormalizeEmail(email)
           THEN [NoSignup EXCEPT
                   !.email = email,
                   !.response =
                     Json([error |-> "User with this email already exists"],
                          409)]
         ELSE [NoSignup EXCEPT !.pc = "insertUser", !.email = email,
                               !.password = password]]
  /\ UNCHANGED <<now, users, sessions, issued, gate, req, s3objects,
                 article_logs, reqCount, mig, clientVars>>

\* INSERT INTO users ... RETURNING id: a refused INSERT throws, nothing
\* catches it and the framework answers 500
SignupInsertUser(p) ==
  /\ su.calls[p].pc = "insertUser"
  /\ IF UniqueViolation(NormalizeEmail(su.calls[p].email))
       THEN /\ su' = [su EXCEPT
                 !.calls[p].pc = "idle",
                 !.calls[p].response =
                   Json([error |-> "Internal Server Error"], 500)]
            /\ UNCHANGED users
       ELSE /\ users' = users \cup
                 {[id |-> Cardinality(users) + 1,
                   email |-> NormalizeEmail(su.calls[p].email),
                   password_hash |-> BcryptHash(su.calls[p].password)]}
            /\ su' = [su EXCEPT
                 !.calls[p].pc = "insertSession",
                 !.calls[p].created = TRUE,
                 !.calls[p].user_id = Cardinality(users) + 1]
  /\ UNCHANGED <<now, sessions, issued, gate, req, s3objects, article_logs,
                 reqCount, mig, clientVars>>

\* INSERT INTO sessions ..., the cookie and the answer 201
SignupInsertSession(p, dbOk) ==
  /\ su.calls[p].pc = "insertSession"
  /\ IF dbOk
       THEN /\ IssueSession(su.calls[p].user_id)
            /\ su' = [su EXCEPT
                 !.calls[p].pc = "idle",
                 !.calls[p].session_id = NewSession(su.calls[p].user_id).id,
                 !.calls[p].token = FreshToken,
                 !.calls[p].response =
                   Json([message |-> "User created successfully",
                         user |-> su.calls[p].user_id,
                         access_token |-> FreshToken], 201)]
       ELSE /\ su' = [su EXCEPT
                 !.calls[p].pc = "idle",
                 !.calls[p].response =
                   Json([error |-> "Internal Server Error"], 500)]
            /\ UNCHANGED <<sessions, issued>>
  /\ UNCHANGED <<now, users, gate, req, s3objects, article_logs, reqCount,
                 mig, clientVars>>

\* -------------------------------------------- migration routes (GET)
MigCallers == 1 .. 2
MigColumns == {"original_text", "uploaded_file"}

NoCall == [column |-> "", pc |-> "idle", response |-> NoResponse]

\* the optional columns article_logs has, and each caller's request
IdleMig(columns) ==
  [columns |-> columns, calls |-> [p \in MigCallers |-> NoCall], started |-> 0]

\* SELECT column_name FROM information_schema.columns WHERE ... : rows.length
ColumnRows(columns, column) ==
  Cardinality({k \in 1 .. Len(columns) : columns[k] = column})

\* the catch block: 500 with String(err)
MigrationFailed(column, details) ==
  Json([error |-> "Failed to add column", column |-> column,
        details |-> details, success |-> FALSE], 500)

\* the handler up to its first query: the column check and, when the column
\* is there, the answer 'Column already exists'
MigrationCheck(p, column, dbOk) ==
  /\ mig.calls[p].pc = "idle"
  /\ mig.started < MaxMigrations
  /\ mig' = [mig EXCEPT
       !.started = @ + 1,
       !.calls[p] =
         IF ~dbOk
           THEN [column |-> column, pc |-> "idle",
                 response |-> MigrationFailed(column, "connection")]
         ELSE IF ColumnRows(mig.columns, column) > 0
           THEN [column |-> column, pc |-> "idle",
                 response |-> Json([message |-> "Column already exists",
                                    success |-> TRUE, columnExists |-> TRUE],
                                   200)]
         ELSE [column |-> column, pc |-> "alter", response |-> NoResponse]]
  /\ UNCHANGED <<now, users, sessions, issued, gate, req, s3objects,
                 article_logs, reqCount, su, clientVars>>

\* ALTER TABLE article_logs ADD COLUMN ... TEXT: the database refuses a
\* column that is there
MigrationAlter(p) ==
  /\ mig.calls[p].pc = "alter"
  /\ mig' =
       IF ColumnRows(mig.columns, mig.calls[p].column) > 0
         THEN [mig EXCEPT
                 !.calls[p].pc = "idle",
                 !.calls[p].response =
                   MigrationFailed(mig.calls[p].column,
                                   "column already exists")]
         ELSE [mig EXCEPT
                 !.columns = Append(@, mig.calls[p].column),
                 !.calls[p].pc = "verify"]
  /\ UNCHANGED <<now, users, sessions, issued, gate, req, s3objects,
                 article_logs, reqCount, su, clientVars>>

\* the verifying query and the answer
MigrationVerify(p) ==
  /\ mig.calls[p].pc = "verify"
  /\ mig' = [mig EXCEPT
       !.calls[p].pc = "idle",
       !.calls[p].response =
         IF ColumnRows(mig.columns, mig.calls[p].column) = 0
           THEN MigrationFailed(mig.calls[p].column,
                                "Column was not created successfully")
           ELSE Json([message |-> "Successfully added column",
                      success |-> TRUE,
                      columnDetails |-> mig.calls[p].column], 200)]
  /\ UNCHANGED <<now, users, sessions, issued, gate, req, s3objects,
                 article_logs, reqCount, su, clientVars>>

\* --------------------------------------------------- TextAnalyzer.tsx
\* useState(null) of selectedFile
NoSelectedFile == [ClientFile(<<>>, "", 0, <<>>) EXCEPT !.present = FALSE]

\* the texts typed into the textarea and the files chosen
UiTexts == {<<>>, <<" ">>, <<"h", "i">>}
UiFiles ==
  {ClientFile(TxtName, "text/plain", 1, <<"b">>),
   ClientFile(DocxName,
     "application/vnd.openxmlformats-officedocument.wordprocessingml.document",
     1, <<"b">>),
   ClientFile(PdfName, "application/pdf", MaxFileSizeMB + 1, <<"b">>)}
UiErrors == {ApiError("network"), ApiError("validation")}

\* reading: the calls of analyzeContent waiting at await selectedFile.text(),
\* each with the text and the file of the render it was started from;
\* mutations: the mutations started by mutateAsync, the last one observed;
\* result: 0 for null, or the number of the mutation whose answer is shown
IdleUi ==
  [text |-> <<>>, selectedFile |-> NoSelectedFile, result |-> 0,
   analyzedText |-> <<>>, reading |-> <<>>, mutations |-> <<>>,
   clicks |-> 0]

\* analysisMutation.isPending: the state of the mutation started last
IsPending(u) ==
  /\ u.mutations # <<>>
  /\ u.mutations[Len(u.mutations)].status = "pending"

PendingMutations(u) ==
  {k \in DOMAIN u.mutations : u.mutations[k].status = "pending"}

\* disabled={analysisMutation.isPending || (!text.trim() && !selectedFile)}
AnalyzeDisabled(u) ==
  IsPending(u) \/ (Trim(u.text) = <<>> /\ ~u.selectedFile.present)

\* disabled={analysisMutation.isPending}
ClearDisabled(u) == IsPending(u)

\* analysisMutation.mutateAsync({text: text.trim() || undefined, file: ...})
MutateAsync(u, text, file) ==
  [u EXCEPT !.mutations =
     Append(@, [status |-> "pending", failureCount |-> 0,
                text |-> Trim(text), file |-> file])]

\* Textarea onChange, disabled={!!selectedFile}
TypeText(text) ==
  /\ ~ui.selectedFile.present
  /\ ui' = [ui EXCEPT !.text = text]
  /\ UNCHANGED <<serverVars, mut, fn, idx>>

\* handleFileSelect
HandleFileSelect(file) ==
  /\ ui' = IF validateFile(file).isValid
             THEN [ui EXCEPT !.selectedFile = file, !.text = <<>>]
             ELSE ui
  /\ UNCHANGED <<serverVars, mut, fn, idx>>

\* the x button next to the file name
RemoveFile ==
  /\ ui.selectedFile.present
  /\ ui' = [ui EXCEPT !.selectedFile = NoSelectedFile]
  /\ UNCHANGED <<serverVars, mut, fn, idx>>

\* a click on Analyze: analyzeContent up to its first await
ClickAnalyze ==
  /\ ~AnalyzeDisabled(ui)
  /\ ui.clicks < MaxClicks
  /\ LET textForAnalysis == Trim(ui.text)
         u == [ui EXCEPT !.clicks = @ + 1]
     IN ui' =
          IF ui.selectedFile.present /\ textForAnalysis = <<>>
            THEN IF \/ ui.selectedFile.type = "text/plain"
                    \/ EndsWith(ui.selectedFile.name, <<".", "t", "x", "t">>)
                   THEN [u EXCEPT !.reading =
                           Append(@, [text |-> ui.text,
                                      file |-> ui.selectedFile])]
                   ELSE MutateAsync([u EXCEPT !.analyzedText = <<>>],
                                    ui.text, ui.selectedFile)
            ELSE MutateAsync([u EXCEPT !.analyzedText = textForAnalysis],
                             ui.text, ui.selectedFile)
  /\ UNCHANGED <<serverVars, mut, fn, idx>>

\* selectedFile.text() resolves: analyzeContent goes on to mutateAsync
FileTextResolves(k) ==
  /\ k \in DOMAIN ui.reading
  /\ LET call == ui.reading[k]
         rest == [j \in 1 .. Len(ui.reading) - 1 |->
                    IF j < k THEN ui.reading[j] ELSE ui.reading[j + 1]]
     IN ui' = MutateAsync([ui EXCEPT !.reading = rest,
                                     !.analyzedText = call.file.content],
                          call.text, call.file)
  /\ UNCHANGED <<serverVars, mut, fn, idx>>

\* an attempt of mutation k fails: retried, or the mutation ends in error
MutationFails(k, error) ==
  /\ k \in PendingMutations(ui)
  /\ ui' = IF Retry(ui.mutations[k].failureCount, error)
             THEN [ui EXCEPT !.mutations[k].failureCount = @ + 1]
             ELSE [ui EXCEPT !.mutations[k].status = "error"]
  /\ UNCHANGED <<serverVars, mut, fn, idx>>

\* mutation k succeeds: onSuccess sets the result
MutationSucceeds(k) ==
  /\ k \in PendingMutations(ui)
  /\ ui' = [ui EXCEPT !.mutations[k].status = "success", !.result = k]
  /\ UNCHANGED <<serverVars, mut, fn, idx>>

\* a click on Clear: clearAll
ClickClear ==
  /\ ~ClearDisabled(ui)
  /\ ui' = [ui EXCEPT !.text = <<>>, !.selectedFile = NoSelectedFile,
                      !.result = 0, !.analyzedText = <<>>]
  /\ UNCHANGED <<serverVars, mut, fn, idx>>

\* ------------------------------------------------------- specifications

\* a client utility not yet called
IdleFn == [op |-> "none"]

ServerInit ==
  /\ now = 0
  /\ users = {}
  /\ sessions = {}
  /\ issued = {}
  /\ gate = IdleGate
  /\ req = IdleReq
  /\ s3objects = {}
  /\ article_logs = <<>>
  /\ reqCount = 0
  /\ mig = IdleMig(<<>>)
  /\ su = IdleSu

Init ==
  /\ ServerInit
  /\ mut = IdleMut
  /\ fn = IdleFn
  /\ ui = IdleUi
  /\ idx = IdleIdx

Accounts ==
  \E e \in EmailInputs, p \in PasswordInputs : Signup(e, p) \/ Login(e, p)

\* the deployed app: /signup, /login and /analyze.  No route of the app reads
\* the clock against a session, so the clock stays put here.
Next ==
  \/ Accounts
  \/ \E input \in AnalyzeInputs : AnalyzeRequest(input)
  \/ \E formOk, mammothOk, s3Ok \in BOOLEAN :
       AnalyzeParse(formOk, mammothOk, s3Ok)
  \/ \E outcome \in ProviderObjects \cup {ProviderFailed} :
       AnalyzeProvider(outcome)
  \/ \E ok \in BOOLEAN : AnalyzeInsertSettles(ok)

Spec == Init /\ [][Next]_vars

\* the auth middleware in front of a handler, with the account routes and
\* the clock
AuthNext ==
  \/ Accounts
  \/ Tick
  \/ \E h \in GateHeaders, dbOk \in BOOLEAN : AuthGate(h, dbOk)

AuthSpec == Init /\ [][AuthNext]_vars

\* the client's analysis mutation
ClientNext ==
  \/ \E request \in ClientRequests : Mutate(request)
  \/ RetryRuns
  \/ ClientTick
  \/ TimerFires
  \/ \E ok \in BOOLEAN : FetchResolves(ok)
  \/ \E thrown \in FetchRejections : FetchRejects(thrown)
  \/ \E ok \in BOOLEAN : BodySettles(ok)

ClientSpec == Init /\ [][ClientNext]_vars

\* the migration routes, called by two clients at once on a table that has
\* any of the two columns
MigrateInit ==
  /\ now = 0
  /\ users = {}
  /\ sessions = {}
  /\ issued = {}
  /\ gate = IdleGate
  /\ req = IdleReq
  /\ s3objects = {}
  /\ article_logs = <<>>
  /\ reqCount = 0
  /\ su = IdleSu
  /\ mut = IdleMut
  /\ fn = IdleFn
  /\ ui = IdleUi
  /\ idx = IdleIdx
  /\ mig \in {IdleMig(c) : c \in {<<>>, <<"original_text">>,
                                   <<"uploaded_file">>,
                                   <<"original_text", "uploaded_file">>}}

MigrateNext ==
  \/ \E p \in MigCallers, column \in MigColumns, dbOk \in BOOLEAN :
       MigrationCheck(p, column, dbOk)
  \/ \E p \in MigCallers : MigrationAlter(p)
  \/ \E p \in MigCallers : MigrationVerify(p)

MigrateSpec == MigrateInit /\ [][MigrateNext]_vars

\* a file chosen in the client, validated there and sent to the server
UploadInit ==
  /\ ServerInit
  /\ mut = IdleMut
  /\ ui = IdleUi
  /\ idx = IdleIdx
  /\ fn \in {[op |-> "validateFile", file |-> f, pc |-> "chosen",
              validation |-> [isValid |-> FALSE, error |-> ""],
              response |-> NoResponse] : f \in ClientFiles}

UploadNext ==
  \/ CallValidateFile
  \/ \E mammothOk \in BOOLEAN, s3Ok \in BOOLEAN : SubmitFile(mammothOk, s3Ok)

UploadSpec == UploadInit /\ [][UploadNext]_vars

\* the client's three requests, each up to its network call
HttpsInit ==
  /\ ServerInit
  /\ mut = IdleMut
  /\ ui = IdleUi
  /\ idx = IdleIdx
  /\ fn \in AuthForms \cup AnalyzeCalls

HttpsNext == CallHandleAuth \/ CallAnalyzeContent

HttpsSpec == HttpsInit /\ [][HttpsNext]_vars

\* /signup called by two clients at once
SignupNext ==
  \/ \E p \in SignupCallers, e \in EmailInputs, pw \in PasswordInputs :
       SignupCheck(p, e, pw)
  \/ \E p \in SignupCallers : SignupInsertUser(p)
  \/ \E p \in SignupCallers, dbOk \in BOOLEAN : SignupInsertSession(p, dbOk)

SignupSpec == Init /\ [][SignupNext]_vars

\* the analyzer view, from its first render
UiNext ==
  \/ \E text \in UiTexts : TypeText(text)
  \/ \E file \in UiFiles : HandleFileSelect(file)
  \/ RemoveFile
  \/ ClickAnalyze
  \/ \E k \in 1 .. MaxClicks : FileTextResolves(k)
  \/ \E k \in 1 .. MaxClicks, error \in UiErrors : MutationFails(k, error)
  \/ \E k \in 1 .. MaxClicks : MutationSucceeds(k)
  \/ ClickClear

UiSpec == Init /\ [][UiNext]_vars

\* the Index page, first loaded with anything in localStorage
IndexInit ==
  /\ ServerInit
  /\ mut = IdleMut
  /\ fn = IdleFn
  /\ ui = IdleUi
  /\ idx \in {[IdleIdx EXCEPT !.storage = [user |-> u, session |-> s]] :
              u \in StoredItems(UserData), s \in StoredItems(SessionData)}

IndexNext ==
  \/ Mount
  \/ \E u \in UserData, s \in SessionData : HandleLogin(u, s)
  \/ HandleLogout
  \/ Reload

IndexSpec == IndexInit /\ [][IndexNext]_vars

\* detectLanguages applied to each text of DetectTexts
DetectInit ==
  /\ ServerInit
  /\ mut = IdleMut
  /\ ui = IdleUi
  /\ idx = IdleIdx
  /\ fn \in {[op |-> "detectLanguages", text |-> t, called |-> FALSE,
              result |-> <<>>] : t \in DetectTexts}

CallDetectLanguages ==
  /\ fn.op = "detectLanguages"
  /\ ~fn.called
  /\ fn' = [fn EXCEPT !.called = TRUE, !.result = detectLanguages(fn.text)]
  /\ UNCHANGED <<serverVars, pageVars, mut>>

DetectSpec == DetectInit /\ [][CallDetectLanguages]_vars

\* extractNationalities applied to each list of CountryLists, and to its
\* own result
ExtractInit ==
  /\ ServerInit
  /\ mut = IdleMut
  /\ ui = IdleUi
  /\ idx = IdleIdx
  /\ fn \in {[op |-> "extractNationalities", countries |-> Arr(list),
              called |-> FALSE, result |-> Arr(<<>>), again |-> Arr(<<>>)] :
             list \in CountryLists}

CallExtractNationalities ==
  /\ fn.op = "extractNationalities"
  /\ ~fn.called
  /\ fn' = [fn EXCEPT
             !.called = TRUE,
             !.result = extractNationalities(fn.countries),
             !.again = extractNationalities(extractNationalities(fn.countries))]
  /\ UNCHANGED <<serverVars, pageVars, mut>>

ExtractSpec == ExtractInit /\ [][CallExtractNationalities]_vars

\* extractNationalities applied to each single name of CountryNames
CountryInit ==
  /\ ServerInit
  /\ mut = IdleMut
  /\ ui = IdleUi
  /\ idx = IdleIdx
  /\ fn \in {[op |-> "extractNationalities", countries |-> Arr(<<Str(c)>>),
              called |-> FALSE, result |-> Arr(<<>>), again |-> Arr(<<>>)] :
             c \in CountryNames}

CountrySpec == CountryInit /\ [][CallExtractNationalities]_vars

\* mapApiResponseToPRD applied to each response of ApiResponses
NoOutput ==
  [article_summary |-> Undefined, nationalities |-> Undefined,
   organizations |-> Undefined, people |-> Undefined,
   languages |-> Undefined]

MapInit ==
  /\ ServerInit
  /\ mut = IdleMut
  /\ ui = IdleUi
  /\ idx = IdleIdx
  /\ fn \in {[op |-> "mapApiResponseToPRD", apiResponse |-> r,
              originalText |-> t, called |-> FALSE, out |-> NoOutput] :
             r \in ApiResponses, t \in OriginalTexts}

CallMapApiResponseToPRD ==
  /\ fn.op = "mapApiResponseToPRD"
  /\ ~fn.called
  /\ fn' = [fn EXCEPT
             !.called = TRUE,
             !.out = mapApiResponseToPRD(fn.apiResponse, fn.originalText)]
  /\ UNCHANGED <<serverVars, pageVars, mut>>

MapSpec == MapInit /\ [][CallMapApiResponseToPRD]_vars

\* ================================================================ claims

\* ---- C1: POST /analyze is gated by authentication: a request whose
\* Authorization header does not carry a Bearer token matching an unexpired
\* session is answered 401, and nothing is extracted, uploaded, sent to the
\* provider or inserted into article_logs for it.
C1_AnalyzeGated ==
  (req.pc # "idle" /\ ~req.authorized) =>
    /\ req.pc = "done" => req.response.status = 401
    /\ ~req.extracted
    /\ ~req.uploadTried
    /\ req.providerCalls = 0
    /\ req.insert = "none"

\* ---- C2: the auth gate
BearerForm(header) == header.present /\ header.prefix = "Bearer "
HashFound(header) == gate.rows # {}
GateRan == gate.out.status # 0

\* C2 as stated: next runs only for a Bearer header whose token hash is in
\* the sessions table, and in every other case, a failing session lookup
\* included, the request is answered 401 and next does not run.
C2_Original ==
  GateRan =>
    /\ gate.out.next => BearerForm(gate.header) /\ HashFound(gate.header)
    /\ ~(BearerForm(gate.header) /\ HashFound(gate.header) /\ gate.dbOk) =>
         gate.out.status = 401 /\ ~gate.out.next

\* C2 as amended: next runs only for a Bearer header whose token hash is
\* found in the sessions table; a missing header, another scheme or an unknown
\* token is answered 401 and a failing session lookup is answered 500, and in
\* none of these cases does next run.
C2_AuthGate ==
  GateRan =>
    /\ gate.out.next =>
         BearerForm(gate.header) /\ HashFound(gate.header) /\ gate.dbOk
    /\ ~BearerForm(gate.header) => gate.out.status = 401 /\ ~gate.out.next
    /\ (BearerForm(gate.header) /\ ~gate.dbOk) =>
         gate.out.status = 500 /\ ~gate.out.next
    /\ (BearerForm(gate.header) /\ gate.dbOk /\ ~HashFound(gate.header)) =>
         gate.out.status = 401 /\ ~gate.out.next

\* a Bearer token of a stored session presented while the lookup throws
C2_Witness ==
  /\ GateRan
  /\ BearerForm(gate.header) /\ HashFound(gate.header) /\ ~gate.dbOk
  /\ gate.out.status = 500

\* ---- C3: absolute session expiry
GateOnExpired ==
  /\ GateRan
  /\ BearerForm(gate.header)
  /\ \E s \in gate.rows : s.expires_at < gate.at

C3_ExpiryState ==
  /\ \A s \in sessions :
       \E i \in issued : /\ i.session_id = s.id
                         /\ s.expires_at = i.issued_at + SessionDays
  /\ GateOnExpired =>
       /\ ~gate.out.next
       /\ gate.out.status = IF gate.dbOk THEN 401 ELSE 500

C3_ExpiryFixed == \A s \in sessions : s \in sessions'

C4_HashOnly ==
  /\ \A s \in sessions :
       \E i \in issued : /\ i.session_id = s.id
                         /\ s.access_token = hashToken(i.access_token)
  /\ \A s \in sessions, i \in issued : s.access_token # i.access_token
  /\ (GateRan /\ gate.out.next) =>
       \E i \in issued : /\ i.access_token = gate.header.rest
                         /\ \A s \in gate.rows : s.id = i.session_id

\* the value stored for a session is presented as a Bearer token and refused
C4_Witness ==
  /\ GateRan
  /\ BearerForm(gate.header)
  /\ gate.dbOk
  /\ gate.header.rest \in {s.access_token : s \in sessions}
  /\ gate.out.status = 401

\* ---- C5: a file whose name ends in neither .txt nor .docx
FileSent ==
  /\ req.pc # "idle"
  /\ req.input.contentType = "multipart/form-data"
  /\ req.input.file.present

UnsupportedSent ==
  /\ FileSent
  /\ ~EndsWith(req.input.file.name, <<".","t","x","t">>)
  /\ ~EndsWith(req.input.file.name, <<".","d","o","c","x">>)

\* the request in hand has added no row: earlier requests added at most one
NoRowOfRequest == Len(article_logs) < reqCount

\* C5: such a request is answered 400 with no extraction, no upload, no
\* provider call and no article_logs insert, with or without a text field.
C5_UnsupportedFormat ==
  UnsupportedSent =>
    /\ req.pc \in {"parse", "done"}
    /\ req.pc = "done" => req.response.status = 400
    /\ ~req.extracted
    /\ ~req.uploadTried
    /\ \A o \in s3objects : o.originalName # req.input.file.name
    /\ req.providerCalls = 0
    /\ req.insert = "none"
    /\ NoRowOfRequest

\* a .pdf sent together with a non-empty text field is refused
C5_Witness ==
  /\ UnsupportedSent
  /\ Trim(req.input.text) # <<>>
  /\ req.pc = "done"
  /\ req.response =
       Json([error |->
               "Unsupported file type. Only .txt and .docx are accepted."],
            400)

\* ---- C6: a file above the 10MB limit is rejected (4xx) before text
\* extraction and before any provider call.
C6_SizeLimit ==
  (FileSent /\ req.input.file.sizeMB > MaxFileSizeMB) =>
    /\ ~req.extracted
    /\ req.providerCalls = 0
    /\ req.pc = "done" => req.response.status \in 400 .. 499

\* ---- C7: a failing provider call (or schema validation)
ProviderFailure == req.providerCalls >= 1 /\ req.object = NoObject

\* C7: the request is answered 500 with a body holding none of the five
\* analysis fields, after exactly one provider call, and no row is written.
C7_AnalysisFailed ==
  ProviderFailure =>
    /\ req.pc = "done"
    /\ req.response.status = 500
    /\ DOMAIN req.response.body \cap AnalysisFields = {}
    /\ req.providerCalls = 1
    /\ req.insert = "none"
    /\ NoRowOfRequest

C7_Witness == ProviderFailure /\ req.pc = "done"

\* ---- C8: once the insert has settled, failed or not, the response is 200
\* with exactly the provider's validated object.
C8_PersistenceSwallowed ==
  req.insert \in {"ok", "failed"} =>
    /\ req.pc = "done"
    /\ req.object \in ProviderObjects
    /\ req.response = Json(req.object, 200)

C8_Witness ==
  /\ req.insert = "failed"
  /\ req.pc = "done"
  /\ req.response.status = 200
  /\ NoRowOfRequest

\* ---- C9: the insert is fire-and-forget: while it is in flight the
\* response has already been produced.
C9_FireAndForget ==
  req.insert = "inflight" => req.response # NoResponse

\* ---- C10: the S3 upload is best-effort
LastRow == article_logs[Len(article_logs)]

\* the response as determined by the assembled text and the provider alone
ExpectedResponse ==
  IF req.articleText = <<>>
    THEN Json([error |-> "No article text provided"], 400)
  ELSE IF req.object = NoObject THEN Json(ProviderFailed, 500)
  ELSE Json(req.object, 200)

\* C10: when the upload fails the handler goes on: the provider is called,
\* the response is the one the text and the provider determine, and the row
\* carries a null uploaded_file; when it succeeds the row carries the address
\* of the stored object.
C10_BestEffortUpload ==
  req.uploadTried =>
    /\ req.pc # "parse"
    /\ req.pc = "done" => req.response = ExpectedResponse
    /\ (req.pc = "done" /\ req.articleText # <<>>) => req.providerCalls = 1
    /\ ~req.uploadOk =>
         /\ req.uploadedFileUrl = NullUrl
         /\ req.insert = "ok" => LastRow.uploaded_file = NullUrl
    /\ req.uploadOk =>
         /\ \E o \in s3objects :
              /\ o.body = req.input.file.content
              /\ o.originalName = req.input.file.name
              /\ req.uploadedFileUrl = S3Url(o.id, o.ext)
         /\ req.insert = "ok" =>
              /\ LastRow.uploaded_file = req.uploadedFileUrl
              /\ LastRow.uploaded_file # NullUrl

\* the upload failed, the analysis succeeded and the row was written
C10_Witness ==
  /\ req.uploadTried
  /\ ~req.uploadOk
  /\ req.pc = "done"
  /\ req.response.status = 200
  /\ req.insert = "ok"
  /\ LastRow.uploaded_file = NullUrl

\* ---- C11: every 200 response of POST /analyze carries exactly the five
\* analysis fields, each an array; when the provider omits language the
\* response and the persisted row carry language as an empty array.
C11_AllFiveFields ==
  (req.pc = "done" /\ req.response.status = 200) =>
    /\ DOMAIN req.response.body = AnalysisFields
    /\ req.insert = "ok" => LastRow.language.t = "array"
    /\ "language" \notin DOMAIN req.object =>
         /\ req.response.body.language = <<>>
         /\ req.insert = "ok" => LastRow.language.v = <<>>

\* ---- C12: the client's retry is bounded and leaves out config and
\* validation failures: such a failure ends the mutation after one attempt;
\* any other failure is retried at most twice (three attempts in all), after
\* which the mutation is in the error state.
IsConfigOrValidation(error) ==
  error.apiError /\ error.category \in {"config", "validation"}

C12_BoundedRetry ==
  /\ mut.attempts <= 3
  /\ Len(mut.failures) <= mut.attempts
  /\ \A i \in 1 .. Len(mut.failures) :
       IsConfigOrValidation(mut.failures[i]) =>
         mut.attempts = 1 /\ mut.status = "error"
  /\ Len(mut.failures) = 3 => mut.status = "error"

\* three attempts failed, the last on a timeout
C12_Witness ==
  /\ mut.status = "error"
  /\ mut.attempts = 3
  /\ Len(mut.failures) = 3
  /\ mut.aborted

\* ---- C13: only network failures are retried: a failure of any other
\* category (config, validation, request) is reported after one attempt.
C13_OnlyNetworkRetried ==
  \A i \in 1 .. Len(mut.failures) :
    (mut.failures[i].apiError /\ mut.failures[i].category # "network") =>
      mut.attempts = 1 /\ mut.status = "error"

\* ---- C14: a call not completed 30 seconds after its start is aborted and
\* rejects with a network ApiError; a call completed earlier is not aborted.
CallUnderWay == mut.call \in {"fetching", "body"}

C14_Timeout ==
  /\ CallUnderWay => mut.elapsed < ClientTimeoutSec + ClientTickSec
  /\ mut.aborted =>
       /\ mut.elapsed >= ClientTimeoutSec
       /\ mut.failures[Len(mut.failures)] = ApiError("network")

\* ---- C15: mapApiResponseToPRD is total and well typed: article_summary
\* is a string, the four other fields are arrays of strings, and
\* organizations and people are passed through only when they are arrays of
\* strings and are empty otherwise.
Mapped == fn.op = "mapApiResponseToPRD" /\ fn.called

IsStringArray(x) ==
  x.t = "array" /\ \A k \in 1 .. Len(x.v) : x.v[k].t = "string"

C15_WellTyped ==
  Mapped =>
    /\ fn.out.article_summary.t = "string"
    /\ \A f \in {"nationalities", "organizations", "people", "languages"} :
         IsStringArray(fn.out[f])
    /\ \A f \in {"organizations", "people"} :
         fn.out[f] = IF IsStringArray(fn.apiResponse[f])
                       THEN fn.apiResponse[f] ELSE Arr(<<>>)

\* ---- C16: the canonical article_summary is, in this order: the elements
\* of an array article_summary joined with single spaces; otherwise a
\* non-empty scalar article_summary itself; otherwise a non-empty summary;
\* otherwise the empty string.
C16_Original ==
  Mapped =>
    fn.out.article_summary =
      IF fn.apiResponse.article_summary.t = "array"
        THEN Str(JoinArray(fn.apiResponse.article_summary.v, <<" ">>))
      ELSE IF Truthy(fn.apiResponse.summary) THEN fn.apiResponse.summary
      ELSE Str(<<>>)

C16_SummaryOrder ==
  Mapped =>
    /\ fn.out.article_summary =
         IF fn.apiResponse.article_summary.t = "array"
           THEN Str(JoinArray(fn.apiResponse.article_summary.v, <<" ">>))
         ELSE IF Truthy(fn.apiResponse.article_summary)
           THEN fn.apiResponse.article_summary
         ELSE IF Truthy(fn.apiResponse.summary) THEN fn.apiResponse.summary
         ELSE Str(<<>>)
    /\ fn.apiResponse.article_summary = Arr(<<Str(<<"A">>), Str(<<"B">>)>>)
         => fn.out.article_summary = Str(<<"A", " ", "B">>)

\* a scalar article_summary was returned although summary was there too
C16_Witness ==
  /\ Mapped
  /\ fn.apiResponse.article_summary = Str(<<"S">>)
  /\ fn.apiResponse.summary = Str(<<"T">>)
  /\ fn.out.article_summary = Str(<<"S">>)

\* ---- C24: the list fed to nationality extraction is the countries field
\* when it is an array, otherwise the nationalities field when it is an
\* array, otherwise the empty list; entries that are not strings are passed
\* over and the strings of the same list are still looked up.
ChosenList ==
  IF fn.apiResponse.countries.t = "array" THEN fn.apiResponse.countries
  ELSE IF fn.apiResponse.nationalities.t = "array"
    THEN fn.apiResponse.nationalities
  ELSE Arr(<<>>)

StringsOf(list) ==
  LET isString(x) == x.t = "string" IN Arr(SelectSeq(list.v, isString))

C24_Original ==
  Mapped =>
    fn.out.nationalities =
      IF IsStringArray(ChosenList) THEN extractNationalities(ChosenList)
      ELSE Arr(<<>>)

C24_ListChoice ==
  Mapped =>
    /\ fn.out.nationalities = extractNationalities(StringsOf(ChosenList))
    /\ Len(fn.out.nationalities.v) <= Len(StringsOf(ChosenList).v)

\* the string of a list that also holds a number was looked up
C24_Witness ==
  /\ Mapped
  /\ fn.apiResponse.countries = Arr(<<Num(1), Str(France)>>)
  /\ fn.apiResponse.nationalities = Arr(<<Str(USA)>>)
  /\ fn.out.nationalities = Arr(<<Str(French)>>)

\* ---- C17: the result set of extractNationalities does not depend on the
\* order of the input and has no duplicates: every permutation of a list
\* gives the same set, and USA, United States and America together give the
\* single element American.
Perms(n) ==
  {p \in [1 .. n -> 1 .. n] : \A k, l \in 1 .. n : p[k] = p[l] => k = l}

NoDuplicates(seq) ==
  \A k, l \in 1 .. Len(seq) : seq[k] = seq[l] => k = l

C17_OrderIndependent ==
  (fn.op = "extractNationalities" /\ fn.called) =>
    LET list == fn.countries.v
        n == Len(list)
    IN /\ NoDuplicates(fn.result.v)
       /\ \A p \in Perms(n) :
            Range(extractNationalities(Arr([k \in 1 .. n |-> list[p[k]]])).v)
              = Range(fn.result.v)
       /\ (list # <<>> /\ Range(list) \subseteq
             {Str(USA), Str(UnitedStates), Str(America)})
            => fn.result.v = <<Str(American)>>

\* the three names of one country gave one nationality
C17_Witness ==
  /\ fn.op = "extractNationalities"
  /\ fn.called
  /\ fn.countries.v = <<Str(USA), Str(UnitedStates), Str(America)>>
  /\ fn.result.v = <<Str(American)>>

\* ---- C18: extractNationalities is idempotent: applied to its own result
\* it returns that result, so a list of nationalities passes through
\* unchanged.
C18_Idempotent ==
  (fn.op = "extractNationalities" /\ fn.called) => fn.again = fn.result

\* ---- C19: when the response provides no language (language and languages
\* absent or without entries) and an original text is supplied, languages is
\* exactly detectLanguages of that text, and so never empty.
NoEntries(x) == ~Truthy(x) \/ x = Arr(<<>>)

C19_LanguageFallback ==
  (/\ Mapped
   /\ NoEntries(fn.apiResponse.language)
   /\ NoEntries(fn.apiResponse.languages)
   /\ fn.originalText.t = "string") =>
    /\ fn.out.languages = StringArray(detectLanguages(fn.originalText.v))
    /\ fn.out.languages.v # <<>>

\* ---- C25: for each country extractNationalities adds at most one
\* nationality: the value of the key equal to the trimmed, lower-cased name
\* when there is one; otherwise the value of the first key, in table order,
\* that contains the name or is contained in it; otherwise nothing.
OneName ==
  fn.op = "extractNationalities" /\ fn.called /\ Len(fn.countries.v) = 1

C25_MatchingOrder ==
  OneName =>
    LET name == ToLowerCase(Trim(fn.countries.v[1].v))
        n == Len(countryToNationality)
        exact == {k \in 1 .. n : countryToNationality[k][1] = name}
        partial == {k \in 1 .. n :
                      \/ Includes(name, countryToNationality[k][1])
                      \/ Includes(countryToNationality[k][1], name)}
        first(set) == CHOOSE k \in set : \A l \in set : k <= l
    IN fn.result.v =
         IF exact # {} THEN <<Str(countryToNationality[first(exact)][2])>>
         ELSE IF partial # {}
           THEN <<Str(countryToNationality[first(partial)][2])>>
         ELSE <<>>

\* ---- C28: in any interleaving of signups for one normalized email at
\* most one user row is created, and a signup that does not create the user
\* creates no session and issues no access token.
C28_OneUserPerEmail ==
  /\ \A u1, u2 \in users : u1.email = u2.email => u1 = u2
  /\ \A p \in SignupCallers :
       ~su.calls[p].created =>
         /\ su.calls[p].session_id = 0
         /\ su.calls[p].token = 0
         /\ su.calls[p].response.status # 201
  /\ \A s \in sessions : \E u \in users : u.id = s.user_id
  /\ Cardinality(issued) = Cardinality(sessions)
  /\ Cardinality(sessions) <= Cardinality(users)

\* two signups for one email passed the check together: one created the
\* user, the other was refused by the database and left no session
C28_Witness ==
  \E p, q \in SignupCallers :
    /\ su.calls[p].response.status = 201
    /\ su.calls[q].response.status = 500
    /\ ~su.calls[q].created
    /\ NormalizeEmail(su.calls[q].email) = NormalizeEmail(su.calls[p].email)
    /\ su.calls[p].email # su.calls[q].email
    /\ Cardinality(users) = 1
    /\ Cardinality(sessions) = 1

\* ---- C29: a country that is empty or only whitespace gives no
\* nationality.
C29_BlankGivesNothing ==
  (OneName /\ Trim(fn.countries.v[1].v) = <<>>) => fn.result.v = <<>>

\* ---- C26: the canonical languages are the languages field when it is an
\* array; otherwise the language field when it is an array; otherwise
\* detectLanguages of the original text when there is one; otherwise
\* ["English"].
C26_LanguageOrder ==
  Mapped =>
    fn.out.languages =
      IF fn.apiResponse.languages.t = "array" THEN fn.apiResponse.languages
      ELSE IF fn.apiResponse.language.t = "array"
        THEN fn.apiResponse.language
      ELSE IF fn.originalText.t = "string" /\ fn.originalText.v # <<>>
        THEN StringArray(detectLanguages(fn.originalText.v))
      ELSE Arr(<<Str(English)>>)

\* both fields were arrays and languages was taken
C26_Witness ==
  /\ Mapped
  /\ fn.apiResponse.languages = Arr(<<Str(French)>>)
  /\ fn.apiResponse.language = Arr(<<Str(German)>>)
  /\ fn.out.languages = Arr(<<Str(French)>>)

\* ---- C20: detectLanguages returns the languages whose match count is
\* above 5, by descending count, at most the three highest, each capitalized;
\* when no count is above 5 (as for "123 456 789") it returns exactly
\* ["English"]; the result is never empty and never longer than three.
Qualifying(text) ==
  {e \in Range(LanguageScores(ToLowerCase(text))) : e.score > 5}

C20_DetectLanguages ==
  (fn.op = "detectLanguages" /\ fn.called) =>
    LET q == Qualifying(fn.text)
        r == fn.result
        ScoreOf(name) == (CHOOSE e \in q : Capitalize(e.language) = name).score
    IN /\ r # <<>>
       /\ Len(r) <= 3
       /\ fn.text = NumericText => r = <<English>>
       /\ q = {} => r = <<English>>
       /\ q # {} =>
            /\ Len(r) = IF Cardinality(q) < 3 THEN Cardinality(q) ELSE 3
            /\ \A k \in 1 .. Len(r) :
                 /\ \E e \in q : r[k] = Capitalize(e.language)
                 /\ r[k][1] \in Range(UpperCase)
            /\ \A k, l \in 1 .. Len(r) :
                 k < l => r[k] # r[l] /\ ScoreOf(r[k]) >= ScoreOf(r[l])
            /\ \A e \in q :
                 Capitalize(e.language) \notin Range(r) =>
                   \A k \in 1 .. Len(r) : ScoreOf(r[k]) >= e.score

\* more than three languages are above the threshold and German leads
C20_Witness ==
  /\ fn.op = "detectLanguages"
  /\ fn.called
  /\ Cardinality(Qualifying(fn.text)) > 3
  /\ Len(fn.result) = 3
  /\ fn.result[1] = <<"G", "e", "r", "m", "a", "n">>
  /\ fn.result[2] = English

\* ---- C21: the migration routes are idempotent: however often and in
\* whatever interleaving they are called, article_logs has the column at
\* most once, a call that has answered success leaves it there, and no call
\* fails because the column already exists.
C21_Idempotent ==
  /\ \A column \in MigColumns : ColumnRows(mig.columns, column) <= 1
  /\ \A p \in MigCallers :
       /\ (mig.calls[p].response.status = 200 /\ mig.calls[p].pc = "idle")
            => ColumnRows(mig.columns, mig.calls[p].column) = 1
       /\ mig.calls[p].response.status = 500
            => mig.calls[p].response.body.details # "column already exists"

\* ---- C22: a file that passed the client's validation (.txt, .docx or
\* .pdf, at most 10MB) is never answered by POST /analyze with the
\* unsupported-file-type error.
C22_AcceptedIsSupported ==
  (fn.op = "validateFile" /\ fn.pc = "answered" /\ fn.response.status = 400)
    => fn.response.body.error #
         "Unsupported file type. Only .txt and .docx are accepted."

\* ---- C23: the client sends a signup, login or analyze request only to an
\* API URL that starts with https://; with another or an empty URL no
\* network call is made.
C23_HttpsOnly ==
  (fn.op \in {"handleAuth", "analyzeContent"} /\ fn.fetched) =>
    fn.apiUrl = ApiUrl(TRUE, "https://")

\* ---- C30: in the Index page, after any sequence of mount (with anything
\* in localStorage), login and logout, user is non-null only together with a
\* non-null session.
C30_SessionWithUser ==
  (idx.mounted /\ idx.user.t # "null") => idx.session.t # "null"

\* ---- C27: the analyzer view has at most one analysis in flight: no second
\* request starts before the first has settled.
C27_OneInFlight ==
  Cardinality(PendingMutations(ui)) <= 1

====
